---- MODULE Spec2Model ----
(***************************************************************************)
(* A model of the EI ASSET data loader (load_data.py): the three source    *)
(* extractors, the per-student skill derivation, the statistics and the    *)
(* report builder, as the steps of build_school_data.                      *)
(*                                                                         *)
(* Text is held as a tuple of one-character strings, so that trimming,     *)
(* case folding, pattern matching and splitting are computed and not       *)
(* assumed.  Percentages are held in tenths of a percent (50.0 is 500);    *)
(* a median is held in twentieths of a percent (50.0 is 1000), because the *)
(* median of an even number of one-decimal values can end in 5 hundredths. *)
(***************************************************************************)
EXTENDS Integers, Sequences, FiniteSets, TLC

VARIABLES
    pc,                  \* position inside build_school_data
    err,                 \* the exception that ended the run, "" when none
    totals_dir,          \* the totals directory, as far as the listing was read
    all_data,            \* load_all_student_performance: all_data
    student_df,          \* the combined totals table
    skills_dir,          \* the skills directory, as far as the listing was read
    skills_all,          \* load_all_skills_data: all_data
    skills_df,           \* the combined skills table
    qlevel_files,        \* the question-level files, as far as the listing was read
    question_level_data, \* dict (class_section, subject) -> table, in insertion order
    warnings,            \* <<>>, then <<W>>: the set W validate_data_sources returned
    out,                 \* the structure build_school_data returns
    args,                \* the arguments of a function called on its own
    ret,                 \* what that call returned
    session_state,       \* st.session_state of every browser session
    groups_file,         \* output/student_groups.json
    data                 \* main: the filtered structure of a session's last run

vars == <<pc, err, totals_dir, all_data, student_df, skills_dir, skills_all,
          skills_df, qlevel_files, question_level_data, warnings,
          out, args, ret, session_state, groups_file, data>>

dashboard_vars == <<session_state, groups_file, data>>

----------------------------------------------------------------------------
(* Bounds of the model *)

MaxFiles == 2        \* files in the totals directory
MaxRows == 2         \* data rows below the header of one totals file
MaxAuxFiles == 1     \* files in the skills and in the question-level directory
MaxSkills == 2       \* skills handed to calculate_student_skill_performance
MaxSkillQ == 3       \* question numbers of one such skill
MaxResp == 3         \* length of the response vector handed to it
MaxLabel == 5        \* characters of a raw class label
MaxClassFiles == 3   \* totals files of the runs that order the classes
MaxStatRows == 4     \* rows of the table handed to calculate_class_statistics
MaxSchoolRows == 2   \* student rows of a totals file of the runs over a school
MaxSessions == 2     \* browser sessions of the dashboard

----------------------------------------------------------------------------
(* Text *)

Chars == <<" ", "%", "-", ".",
           "0", "1", "2", "3", "4", "5", "6", "7", "8", "9",
           "A", "B", "C", "D", "E", "F", "G", "H", "I", "J", "K", "L", "M",
           "N", "O", "P", "Q", "R", "S", "T", "U", "V", "W", "X", "Y", "Z",
           "_",
           "a", "b", "c", "d", "e", "f", "g", "h", "i", "j", "k", "l", "m",
           "n", "o", "p", "q", "r", "s", "t", "u", "v", "w", "x", "y", "z">>

OrdOf == [c \in {Chars[i] : i \in 1..Len(Chars)} |->
             CHOOSE i \in 1..Len(Chars) : Chars[i] = c]

\* the position of a character in the order Python compares characters by
Ord(c) == OrdOf[c]

FirstDigit == Ord("0")
FirstUpper == Ord("A")
FirstLower == Ord("a")

IsDigit(c) == Ord(c) >= FirstDigit /\ Ord(c) < FirstDigit + 10
IsUpperCh(c) == Ord(c) >= FirstUpper /\ Ord(c) < FirstUpper + 26
IsLowerCh(c) == Ord(c) >= FirstLower /\ Ord(c) < FirstLower + 26
IsAlpha(c) == IsUpperCh(c) \/ IsLowerCh(c)
IsSpace(c) == c = " "

UpperCh(c) == IF IsLowerCh(c) THEN Chars[Ord(c) - FirstLower + FirstUpper] ELSE c
LowerCh(c) == IF IsUpperCh(c) THEN Chars[Ord(c) - FirstUpper + FirstLower] ELSE c

Upper(s) == [i \in 1..Len(s) |-> UpperCh(s[i])]
Lower(s) == [i \in 1..Len(s) |-> LowerCh(s[i])]

RECURSIVE LStrip(_)
LStrip(s) == IF s # <<>> /\ IsSpace(Head(s)) THEN LStrip(Tail(s)) ELSE s

RECURSIVE RStrip(_)
RStrip(s) ==
    IF s # <<>> /\ IsSpace(s[Len(s)]) THEN RStrip(SubSeq(s, 1, Len(s) - 1)) ELSE s

Strip(s) == RStrip(LStrip(s))

\* str.replace(ch, ''): every occurrence of one character removed
Remove(s, ch) == SelectSeq(s, LAMBDA c : c # ch)

\* sub in s
Contains(s, sub) ==
    \E i \in 0..(Len(s) - Len(sub)) : SubSeq(s, i + 1, i + Len(sub)) = sub

\* s < t in Python's string order
RECURSIVE StrLess(_, _)
StrLess(s, t) ==
    IF t = <<>> THEN FALSE
    ELSE IF s = <<>> THEN TRUE
    ELSE IF Head(s) # Head(t) THEN Ord(Head(s)) < Ord(Head(t))
    ELSE StrLess(Tail(s), Tail(t))

\* str.isdigit() and int() of a digit string
IsDigitStr(s) == s # <<>> /\ \A i \in 1..Len(s) : IsDigit(s[i])

RECURSIVE ToInt(_)
ToInt(s) ==
    IF s = <<>> THEN 0
    ELSE 10 * ToInt(SubSeq(s, 1, Len(s) - 1)) + (Ord(s[Len(s)]) - FirstDigit)

\* str.split(sep)
RECURSIVE Split(_, _)
Split(s, sep) ==
    IF \E i \in 1..Len(s) : s[i] = sep
    THEN LET i == CHOOSE j \in 1..Len(s) :
                      s[j] = sep /\ \A k \in 1..(j - 1) : s[k] # sep
         IN  <<SubSeq(s, 1, i - 1)>> \o Split(SubSeq(s, i + 1, Len(s)), sep)
    ELSE <<s>>

----------------------------------------------------------------------------
(* Identifier normalisation *)

IsSep(c) == IsSpace(c) \/ c = "-"

\* the length of the longest prefix of digits: (\d+)
RECURSIVE DigitSpan(_)
DigitSpan(s) == IF s # <<>> /\ IsDigit(Head(s)) THEN 1 + DigitSpan(Tail(s)) ELSE 0

\* the length of the longest prefix of spaces and hyphens: [\s\-]*
RECURSIVE SepSpan(_)
SepSpan(s) == IF s # <<>> /\ IsSep(Head(s)) THEN 1 + SepSpan(Tail(s)) ELSE 0

\* normalize_class_section without the upper() of the section letter
normalize_class_section_NoUpper(raw_class) ==
    LET cleaned == Strip(raw_class)
        d == DigitSpan(cleaned)
        rest == SubSeq(cleaned, d + 1, Len(cleaned))
        g == SepSpan(rest)
    IN  IF d >= 1 /\ g < Len(rest) /\ IsAlpha(rest[g + 1])
        THEN SubSeq(cleaned, 1, d) \o <<"-">> \o <<rest[g + 1]>>
        ELSE cleaned

\* re.match(r'^(\d+)[\s\-]*([A-Za-z])', cleaned)
normalize_class_section(raw_class) ==
    LET cleaned == Strip(raw_class)
        d == DigitSpan(cleaned)
        rest == SubSeq(cleaned, d + 1, Len(cleaned))
        g == SepSpan(rest)
    IN  IF d >= 1 /\ g < Len(rest) /\ IsAlpha(rest[g + 1])
        THEN SubSeq(cleaned, 1, d) \o <<"-">> \o <<UpperCh(rest[g + 1])>>
        ELSE cleaned

normalize_subject(raw_subject) ==
    LET subject == Strip(raw_subject)
    IN  IF Lower(subject) = <<"m", "a", "t", "h">>
        THEN <<"M", "a", "t", "h", "s">>
        ELSE subject

normalize_name(name) == Remove(Remove(Upper(name), " "), ".")

----------------------------------------------------------------------------
(* Numbers *)

\* round(n / d): to the nearest integer, a tie to the even one (Python's round)
RoundDiv(n, d) ==
    LET q == n \div d
        r == n % d
    IN  IF 2 * r < d THEN q
        ELSE IF 2 * r > d THEN q + 1
        ELSE IF q % 2 = 0 THEN q ELSE q + 1

RECURSIVE SumSeq(_)
SumSeq(s) == IF s = <<>> THEN 0 ELSE Head(s) + SumSeq(Tail(s))

\* a sorted copy of a sequence of integers
SortInts(s) == SortSeq(s, LAMBDA a, b : a < b)

\* Series.median(), in twentieths of a percent for values in tenths
Median(s) ==
    LET srt == SortInts(s)
        n == Len(s)
    IN  IF n % 2 = 1 THEN 2 * srt[(n + 1) \div 2]
        ELSE srt[n \div 2] + srt[n \div 2 + 1]

\* round(Series.mean(), 1), in tenths of a percent
Mean1(s) == RoundDiv(SumSeq(s), Len(s))

\* the values of one column
Column(df, col) == [i \in 1..Len(df) |-> df[i][col]]

\* Series.unique(): the distinct values in order of first appearance
RECURSIVE Unique(_)
Unique(s) ==
    IF s = <<>> THEN <<>>
    ELSE LET init == Unique(SubSeq(s, 1, Len(s) - 1))
             x == s[Len(s)]
         IN  IF \E i \in 1..Len(init) : init[i] = x THEN init ELSE Append(init, x)

RECURSIVE Concat(_)
Concat(ss) == IF ss = <<>> THEN <<>> ELSE Head(ss) \o Concat(Tail(ss))

----------------------------------------------------------------------------
(* The totals source: one file of "EI Student Performance CSV Data"        *)
(*                                                                         *)
(* A file is [hdr, cls, subj, nq, rows]: whether the "Student Name" header *)
(* row is there, the class and subject cells of the two metadata rows, the *)
(* number of Q<n> columns, and the rows below the header.  A row is        *)
(* [name, total]; total is the Total Score cell as read_csv types it:      *)
(* kind "int" (an integer, v), "text" (not a number), "missing" (empty,    *)
(* read as NaN) or "inf" (the text inf, read as the float infinity).       *)

IntCell(n) == [k |-> "int", v |-> n]
TextCell == [k |-> "text", v |-> 0]
MissingCell == [k |-> "missing", v |-> 0]
InfCell == [k |-> "inf", v |-> 0]

Row(n, c) == [name |-> n, total |-> c]

SummaryPatterns ==
    { <<"c", "o", "r", "r", "e", "c", "t", " ", "a", "n", "s", "w", "e", "r">>,
      <<"a", "v", "g", " ", "s", "e", "c", "t", "i", "o", "n">>,
      <<"a", "v", "g", " ", "s", "c", "h", "o", "o", "l">> }

\* Series.str.contains('Correct Answer|Avg Section|Avg School', case=False)
IsSummaryName(name) == \E p \in SummaryPatterns : Contains(Lower(name), p)

\* KeptRows without the filter on the answer-key and summary rows
KeptRows_KeepSummary(f) == SelectSeq(f.rows, LAMBDA r : Strip(r.name) # <<>>)

\* the rows that survive the two filters on Student Name
KeptRows(f) ==
    SelectSeq(f.rows, LAMBDA r : ~IsSummaryName(r.name) /\ Strip(r.name) # <<>>)

\* read_csv gives the Total Score column a numeric dtype unless a cell is text
NumericColumn(f) == \A i \in 1..Len(f.rows) : f.rows[i].total.k # "text"

\* int(raw_score) raises OverflowError, which the except clause does not name
Overflows(f, r) == r.total.k = "inf" /\ NumericColumn(f)

\* int(raw_score), with except (ValueError, TypeError): score = 0
ScoreOf(f, r) == IF r.total.k = "int" THEN r.total.v ELSE 0

\* round((score / total_questions) * 100, 1) if total_questions > 0 else 0.0
Percentage(score, total_questions) ==
    IF total_questions > 0 THEN RoundDiv(score * 1000, total_questions) ELSE 0

\* the exception parse_student_performance_csv raises on f, "" when none
TotalsError(f) ==
    IF ~f.hdr THEN "ValueError"
    ELSE IF \E i \in 1..Len(KeptRows(f)) : Overflows(f, KeptRows(f)[i])
         THEN "OverflowError"
    ELSE ""

\* the table parse_student_performance_csv returns
parse_student_performance_csv(f) ==
    LET kept == KeptRows(f)
    IN  [i \in 1..Len(kept) |->
            [student_name |-> Strip(kept[i].name),
             score |-> ScoreOf(f, kept[i]),
             total_questions |-> f.nq,
             percentage |-> Percentage(ScoreOf(f, kept[i]), f.nq),
             class_section |-> normalize_class_section(f.cls),
             subject |-> normalize_subject(f.subj)]]

----------------------------------------------------------------------------
(* The skill taxonomy source: one file of "EI Skills Tested By Question"   *)
(*                                                                         *)
(* A file is [hdr, cls, subj, rows]; a row is [skill_name, questions,      *)
(* section, school], questions being the text of the Questions cell.       *)

\* parse_questions: the digit-only tokens of the comma-separated cell
parse_questions(q_str) ==
    LET tokens == [i \in 1..Len(Split(q_str, ",")) |-> Strip(Split(q_str, ",")[i])]
        digits == SelectSeq(tokens, IsDigitStr)
    IN  IF q_str = <<>> THEN <<>>
        ELSE [i \in 1..Len(digits) |-> ToInt(digits[i])]

SkillsError(f) == IF ~f.hdr THEN "ValueError" ELSE ""

\* the table parse_skills_csv returns
parse_skills_csv(f) ==
    LET kept == SelectSeq(f.rows, LAMBDA r : Strip(r.skill_name) # <<>>)
    IN  [i \in 1..Len(kept) |->
            [skill_name |-> kept[i].skill_name,
             questions_list |-> parse_questions(kept[i].questions),
             section |-> kept[i].section,
             school |-> kept[i].school,
             class_section |-> normalize_class_section(f.cls),
             subject |-> normalize_subject(f.subj)]]

----------------------------------------------------------------------------
(* The question-level source: one file of "EI Student Performance by       *)
(* Question CSV"                                                           *)
(*                                                                         *)
(* A file is [fname, rows]; a row is [student_name, question_responses].   *)

\* str.replace(sub, ''): every occurrence of sub removed, left to right
RECURSIVE RemoveAll(_, _)
RemoveAll(s, sub) ==
    IF Len(s) < Len(sub) THEN s
    ELSE IF SubSeq(s, 1, Len(sub)) = sub
         THEN RemoveAll(SubSeq(s, Len(sub) + 1, Len(s)), sub)
    ELSE <<Head(s)>> \o RemoveAll(Tail(s), sub)

\* filename.replace('.csv', '').split('_')
FileNameParts(fname) == Split(RemoveAll(fname, <<".", "c", "s", "v">>), "_")

\* parts[1] raises IndexError when the name holds no underscore
QLevelError(f) == IF Len(FileNameParts(f.fname)) < 2 THEN "IndexError" ELSE ""

\* what parse_question_level_csv returns: the key and the table
parse_question_level_csv(f) ==
    [class_section |-> FileNameParts(f.fname)[1],
     subject |-> FileNameParts(f.fname)[2],
     df |-> f.rows]

\* (class_section, subject) in question_level_data
HasKey(qld, c, s) ==
    \E i \in 1..Len(qld) : qld[i].class_section = c /\ qld[i].subject = s

\* question_level_data[(class_section, subject)]
Lookup(qld, c, s) ==
    qld[CHOOSE i \in 1..Len(qld) : qld[i].class_section = c /\ qld[i].subject = s].df

\* result[(class_section, subject)] = df: a dict keeps the place of a key it has
DictPut(qld, e) ==
    IF HasKey(qld, e.class_section, e.subject)
    THEN [i \in 1..Len(qld) |->
            IF qld[i].class_section = e.class_section /\ qld[i].subject = e.subject
            THEN e ELSE qld[i]]
    ELSE Append(qld, e)

----------------------------------------------------------------------------
(* Name matching *)

\* NAME_SPELLING_OVERRIDES: (class_section, subject, name) -> name; it is empty
NAME_SPELLING_OVERRIDES == {}

get_question_csv_name(normalized_existing_name, class_section, subject) ==
    IF \E o \in NAME_SPELLING_OVERRIDES :
          /\ o.class_section = class_section
          /\ o.subject = subject
          /\ o.existing = normalized_existing_name
    THEN (CHOOSE o \in NAME_SPELLING_OVERRIDES :
              /\ o.class_section = class_section
              /\ o.subject = subject
              /\ o.existing = normalized_existing_name).question_csv
    ELSE normalized_existing_name

----------------------------------------------------------------------------
(* Skill performance of one student *)

\* SkillQuestions without the filter
SkillQuestions_NoFilter(questions, total_questions) == questions

\* skill_questions = [q for q in skill.questions if q <= total_questions]
SkillQuestions(questions, total_questions) ==
    SelectSeq(questions, LAMBDA q : q <= total_questions)

\* question_responses[q_idx] raises IndexError outside -len .. len-1
IndexRaises(question_responses, q_idx) ==
    q_idx < Len(question_responses) /\ q_idx < 0 - Len(question_responses)

\* q_idx < len(question_responses) and question_responses[q_idx] == 1;
\* a negative index counts from the end of the list
IsCorrect(question_responses, q_num) ==
    LET q_idx == q_num - 1
        n == Len(question_responses)
    IN  /\ q_idx < n
        /\ q_idx >= 0 - n
        /\ question_responses[IF q_idx >= 0 THEN q_idx + 1 ELSE n + q_idx + 1] = 1

\* correct: how many of skill_questions the student got right
RECURSIVE CorrectCount(_, _)
CorrectCount(question_responses, skill_questions) ==
    IF skill_questions = <<>> THEN 0
    ELSE (IF IsCorrect(question_responses, Head(skill_questions)) THEN 1 ELSE 0)
         + CorrectCount(question_responses, Tail(skill_questions))

\* skill_perf[name] = value
PerfPut(skill_perf, name, value) ==
    IF \E i \in 1..Len(skill_perf) : skill_perf[i].skill_name = name
    THEN [i \in 1..Len(skill_perf) |->
            IF skill_perf[i].skill_name = name
            THEN [skill_name |-> name, perf |-> value] ELSE skill_perf[i]]
    ELSE Append(skill_perf, [skill_name |-> name, perf |-> value])

\* the loop of calculate_student_skill_performance over skills, skill_perf so far
RECURSIVE SkillLoop(_, _, _, _)
SkillLoop(question_responses, skills, total_questions, skill_perf) ==
    IF skills = <<>> THEN [raised |-> FALSE, skill_perf |-> skill_perf]
    ELSE LET skill == Head(skills)
             skill_questions == SkillQuestions(skill.questions, total_questions)
         IN  IF skill_questions = <<>>
             THEN SkillLoop(question_responses, Tail(skills), total_questions,
                            skill_perf)
             ELSE IF \E i \in 1..Len(skill_questions) :
                        IndexRaises(question_responses, skill_questions[i] - 1)
             THEN [raised |-> TRUE, skill_perf |-> <<>>]
             ELSE SkillLoop(question_responses, Tail(skills), total_questions,
                      PerfPut(skill_perf, skill.skill_name,
                          RoundDiv(CorrectCount(question_responses, skill_questions)
                                       * 1000,
                                   Len(skill_questions))))

\* [raised, skill_perf]: whether IndexError was raised, else the mapping
calculate_student_skill_performance(question_responses, skills, total_questions) ==
    SkillLoop(question_responses, skills, total_questions, <<>>)

----------------------------------------------------------------------------
(* Statistics and reports *)

\* student_df[(class_section == c) & (subject == s)]
ClassRows(df, c, s) ==
    SelectSeq(df, LAMBDA r : r.class_section = c /\ r.subject = s)

\* StatisticsRows with the subject left out of the mask
StatisticsRows_ClassOnly(df, c, s) == SelectSeq(df, LAMBDA r : r.class_section = c)

\* the percentage column calculate_class_statistics works on
StatisticsRows(df, c, s) == ClassRows(df, c, s)

\* CountBelow with <= in place of <
CountBelow_OrEqual(s, bound) == Cardinality({i \in 1..Len(s) : s[i] <= bound})

CountBelow(s, bound) == Cardinality({i \in 1..Len(s) : s[i] < bound})

\* Series.quantile(quarters / 4) with linear interpolation, in fortieths of a
\* percent for values in tenths: the position (n - 1) * quarters / 4 between
\* two neighbours of the sorted values
Quantile(s, quarters) ==
    LET srt == SortInts(s)
        pos == (Len(s) - 1) * quarters
        k == pos \div 4
        r == pos % 4
    IN  IF r = 0 THEN 4 * srt[k + 1]
        ELSE 4 * srt[k + 1] + r * (srt[k + 2] - srt[k + 1])

\* round(Series.std(), 1), in tenths of a percent: the sample standard
\* deviation sqrt((n * sum(x^2) - sum(x)^2) / (n * (n - 1))), to the nearest
\* tenth
Std1(s) ==
    LET n == Len(s)
        num == 4 * (n * SumSeq([i \in 1..n |-> s[i] * s[i]]) - SumSeq(s) * SumSeq(s))
        den == n * (n - 1)
    IN  CHOOSE r \in 0..1000 :
            /\ (r = 0 \/ (2 * r - 1) * (2 * r - 1) * den <= num)
            /\ num < (2 * r + 1) * (2 * r + 1) * den

StatisticsKeys ==
    {"median", "average", "min", "max", "q1", "q3", "std", "count",
     "below_median_count", "below_60_count"}

\* the dict calculate_class_statistics returns, when it does not return None
calculate_class_statistics(df, c, s) ==
    LET class_data == Column(StatisticsRows(df, c, s), "percentage")
    IN  [key \in StatisticsKeys |->
            CASE key = "median" -> Median(class_data)
              [] key = "average" -> Mean1(class_data)
              [] key = "min" -> SortInts(class_data)[1]
              [] key = "max" -> SortInts(class_data)[Len(class_data)]
              [] key = "q1" -> Quantile(class_data, 1)
              [] key = "q3" -> Quantile(class_data, 3)
              [] key = "std" ->
                     IF Len(class_data) > 1 THEN Std1(class_data) ELSE 0
              [] key = "count" -> Len(class_data)
              [] key = "below_median_count" ->
                     Cardinality({i \in 1..Len(class_data) :
                                      2 * class_data[i] < Median(class_data)})
              [] key = "below_60_count" -> CountBelow(class_data, 600)]

\* a student_name cell that pd.read_csv found empty: the float NaN
NAN == <<"nan">>

\* q_level_df['student_name'].apply(normalize_name) raises AttributeError on
\* a NaN cell, which has no upper()
NameRaises(q_level_df) ==
    \E i \in 1..Len(q_level_df) : q_level_df[i].student_name = NAN

\* MatchingRows with the record's name taken as written
MatchingRows_Exact(q_level_df, lookup_name) ==
    SelectSeq(q_level_df, LAMBDA q : q.student_name = lookup_name)

\* the q_level_df rows whose normalized name is lookup_name
MatchingRows(q_level_df, lookup_name) ==
    SelectSeq(q_level_df, LAMBDA q : normalize_name(q.student_name) = lookup_name)

\* Truncate without the slice
Truncate_None(full_responses, total_questions) == full_responses

\* full_responses[:total_questions]
Truncate(full_responses, total_questions) ==
    SubSeq(full_responses, 1,
           IF total_questions < Len(full_responses)
           THEN total_questions ELSE Len(full_responses))

\* total_questions = int(class_students['total_questions'].iloc[0])
ReportTotalQuestions(class_students) == class_students[1].total_questions

\* the skills of a report
ReportSkills(sdf, c, s) ==
    LET class_skills == ClassRows(sdf, c, s)
    IN  [i \in 1..Len(class_skills) |->
            [skill_name |-> class_skills[i].skill_name,
             questions |-> class_skills[i].questions_list,
             section_performance |-> class_skills[i].section,
             school_performance |-> class_skills[i].school]]

\* one StudentResult of build_class_report; raised when the skill derivation raised
StudentResultOf(row, skills, total_questions, has_q, q_level_df, c, s) ==
    LET lookup_name ==
            get_question_csv_name(normalize_name(row.student_name), c, s)
        q_row == IF has_q THEN MatchingRows(q_level_df, lookup_name) ELSE <<>>
        question_responses ==
            IF q_row # <<>>
            THEN Truncate(q_row[1].question_responses, total_questions)
            ELSE <<>>
        sp == IF q_row # <<>>
              THEN calculate_student_skill_performance(
                       question_responses, skills, total_questions)
              ELSE [raised |-> FALSE, skill_perf |-> <<>>]
    IN  [raised |-> sp.raised,
         name |-> row.student_name,
         score |-> row.score,
         total_questions |-> total_questions,
         percentage |-> row.percentage,
         question_responses |-> question_responses,
         skill_performance |-> sp.skill_perf]

\* build_class_report, for a pair that has student rows
build_class_report(df, sdf, c, s, qld) ==
    LET class_students == ClassRows(df, c, s)
        skills == ReportSkills(sdf, c, s)
        has_q == HasKey(qld, c, s)
        q_level_df == IF has_q THEN Lookup(qld, c, s) ELSE <<>>
        total_questions == ReportTotalQuestions(class_students)
        name_raised == has_q /\ NameRaises(q_level_df)
        students == IF name_raised THEN <<>>
                    ELSE [i \in 1..Len(class_students) |->
                             StudentResultOf(class_students[i], skills,
                                 total_questions, has_q, q_level_df, c, s)]
        stats == calculate_class_statistics(df, c, s)
        error == IF name_raised THEN "AttributeError"
                 ELSE IF \E i \in 1..Len(students) : students[i].raised
                 THEN "IndexError" ELSE ""
    IN  [raised |-> error # "",
         error |-> error,
         class_section |-> c,
         subject |-> s,
         total_students |-> Len(students),
         total_questions |-> total_questions,
         class_average |-> stats["average"],
         class_median |-> stats["median"],
         students |-> students,
         skills |-> skills]

\* SortKey with every label on the fallback branch
SortKey_Fallback(cls) == <<999, cls>>

\* sort_key of sort_class_sections: <<grade, text>>
SortKey(cls) ==
    LET d == DigitSpan(cls)
    IN  IF d >= 1 /\ Len(cls) = d + 2 /\ cls[d + 1] = "-" /\ IsUpperCh(cls[d + 2])
        THEN <<ToInt(SubSeq(cls, 1, d)), <<cls[d + 2]>>>>
        ELSE <<999, cls>>

KeyLess(a, b) == a[1] < b[1] \/ (a[1] = b[1] /\ StrLess(a[2], b[2]))

\* sorted(classes, key=sort_key)
sort_class_sections(classes) ==
    SortSeq(classes, LAMBDA a, b : KeyLess(SortKey(a), SortKey(b)))

\* sorted(subjects)
SortStrings(ss) == SortSeq(ss, StrLess)

\* CrossProduct with the two loops run side by side instead of nested
CrossProduct_Zip(classes, subjects) ==
    [i \in 1..(IF Len(classes) < Len(subjects) THEN Len(classes) ELSE Len(subjects))
        |-> <<classes[i], subjects[i]>>]

\* the pairs the report loop visits, in its order
RECURSIVE CrossProduct(_, _)
CrossProduct(classes, subjects) ==
    IF classes = <<>> THEN <<>>
    ELSE [i \in 1..Len(subjects) |-> <<Head(classes), subjects[i]>>]
         \o CrossProduct(Tail(classes), subjects)

\* the pairs for which build_class_report does not return None
ReportPairs(df, classes, subjects) ==
    SelectSeq(CrossProduct(classes, subjects),
              LAMBDA p : ClassRows(df, p[1], p[2]) # <<>>)

\* GradeMedian with the overall figures taken from the rows of the first
\* subject that has rows
GradeMedian_FirstSubject(df, c, subjects) ==
    LET with_rows == SelectSeq(subjects, LAMBDA s : ClassRows(df, c, s) # <<>>)
        class_data == Column(ClassRows(df, c, with_rows[1]), "percentage")
    IN  [class_section |-> c,
         overall_median |-> Median(class_data),
         overall_average |-> Mean1(class_data),
         by_subject |->
             [i \in 1..Len(with_rows) |->
                 [subject |-> with_rows[i],
                  median |-> Median(Column(ClassRows(df, c, with_rows[i]),
                                           "percentage")),
                  average |-> Mean1(Column(ClassRows(df, c, with_rows[i]),
                                           "percentage"))]]]

\* GradeMedian with the overall figures of the class under every subject
GradeMedian_OverallBySubject(df, c, subjects) ==
    LET class_data == Column(SelectSeq(df, LAMBDA r : r.class_section = c),
                             "percentage")
        with_rows == SelectSeq(subjects, LAMBDA s : ClassRows(df, c, s) # <<>>)
    IN  [class_section |-> c,
         overall_median |-> Median(class_data),
         overall_average |-> Mean1(class_data),
         by_subject |->
             [i \in 1..Len(with_rows) |->
                 [subject |-> with_rows[i],
                  median |-> Median(class_data),
                  average |-> Mean1(class_data)]]]

\* grade_medians[class_section]
GradeMedian(df, c, subjects) ==
    LET class_data == Column(SelectSeq(df, LAMBDA r : r.class_section = c),
                             "percentage")
        with_rows == SelectSeq(subjects, LAMBDA s : ClassRows(df, c, s) # <<>>)
    IN  [class_section |-> c,
         overall_median |-> Median(class_data),
         overall_average |-> Mean1(class_data),
         by_subject |->
             [i \in 1..Len(with_rows) |->
                 [subject |-> with_rows[i],
                  median |-> Median(Column(ClassRows(df, c, with_rows[i]),
                                           "percentage")),
                  average |-> Mean1(Column(ClassRows(df, c, with_rows[i]),
                                           "percentage"))]]]

\* UniqueStudents counted per class and subject
UniqueStudents_PerSubject(df) ==
    Cardinality({<<df[i].class_section, df[i].subject, df[i].student_name>> :
                     i \in 1..Len(df)})

\* student_df.groupby('class_section')['student_name'].nunique().sum()
UniqueStudents(df) ==
    Cardinality({<<df[i].class_section, df[i].student_name>> : i \in 1..Len(df)})

SchoolInfo ==
    [school_name |-> "PEP School V2", school_code |-> "5103484",
     assessment_date |-> "January 2026", assessment_name |-> "EI ASSET"]

\* the structure build_school_data returns, when nothing raised
SchoolData(df, sdf, qld) ==
    LET classes == sort_class_sections(Unique(Column(df, "class_section")))
        subjects == SortStrings(Unique(Column(df, "subject")))
        pairs == ReportPairs(df, classes, subjects)
    IN  [school_info |-> SchoolInfo,
         classes |-> classes,
         subjects |-> subjects,
         reports |-> [i \in 1..Len(pairs) |->
                         build_class_report(df, sdf, pairs[i][1], pairs[i][2], qld)],
         grade_medians |-> [i \in 1..Len(classes) |->
                               GradeMedian(df, classes[i], subjects)],
         school_statistics |->
             [median |-> Median(Column(df, "percentage")),
              average |-> Mean1(Column(df, "percentage")),
              total_students |-> UniqueStudents(df),
              total_assessments |-> Len(df)]]

----------------------------------------------------------------------------
(* Cross-source validation *)

MinNameLen == 8

Warning(kind, c, s, a, b) ==
    [kind |-> kind, class_section |-> c, subject |-> s, a |-> a, b |-> b]

\* MismatchWarnings without the names that only the question-level table has
MismatchWarnings_PerfOnly(df, e) ==
    LET perf == ClassRows(df, e.class_section, e.subject)
        perf_norm == {normalize_name(perf[i].student_name) : i \in 1..Len(perf)}
        q_norm == {normalize_name(e.df[i].student_name) : i \in 1..Len(e.df)}
    IN  {Warning("perf_only", e.class_section, e.subject, n, <<>>) :
             n \in perf_norm \ q_norm}

\* the name mismatches of one question-level table
MismatchWarnings(df, e) ==
    LET perf == ClassRows(df, e.class_section, e.subject)
        perf_norm == {normalize_name(perf[i].student_name) : i \in 1..Len(perf)}
        q_norm == {normalize_name(e.df[i].student_name) : i \in 1..Len(e.df)}
    IN  {Warning("perf_only", e.class_section, e.subject, n, <<>>) :
             n \in perf_norm \ q_norm}
        \cup
        {Warning("q_only", e.class_section, e.subject, n, <<>>) :
             n \in q_norm \ perf_norm}

\* the possible duplicates among the names of one class
DuplicateWarnings(df, c) ==
    LET students == Unique(Column(SelectSeq(df, LAMBDA r : r.class_section = c),
                                  "student_name"))
    IN  {Warning("duplicate", c, <<>>, students[i], students[j]) :
             <<i, j>> \in {p \in (1..Len(students)) \X (1..Len(students)) :
                 LET norm1 == normalize_name(students[p[1]])
                     norm2 == normalize_name(students[p[2]])
                 IN  /\ p[1] < p[2]
                     /\ norm1 # norm2
                     /\ Len(norm1) >= MinNameLen
                     /\ Len(norm2) >= MinNameLen
                     /\ (Contains(norm2, norm1) \/ Contains(norm1, norm2))}}

\* the warnings of validate_data_sources, as a set
validate_data_sources(df, qld) ==
    UNION {MismatchWarnings(df, qld[i]) : i \in 1..Len(qld)}
    \cup
    UNION {DuplicateWarnings(df, c) :
               c \in {df[i].class_section : i \in 1..Len(df)}}

----------------------------------------------------------------------------
(* The inputs the model draws from *)

RawClasses == { <<"3", " ", "a">>, <<"1", "0", "-", "B">> }
RawSubjects == { <<"M", "a", "t", "h">>, <<"E", "n", "g", "l", "i", "s", "h">> }
QCounts == {1, 2}

ANU == <<"A", "n", "u", " ", "K">>
BEN == <<"B", "e", "n">>
ANSWER_KEY == <<"C", "o", "r", "r", "e", "c", "t", " ", "A", "n", "s", "w", "e", "r">>
BLANK == <<" ">>

\* rows of the files of a whole run
RowChoices ==
    { Row(ANU, IntCell(1)), Row(BEN, TextCell), Row(ANSWER_KEY, MissingCell) }

\* rows of the files given to the totals loader alone: every kind of cell
CellRowChoices ==
    { Row(ANU, IntCell(1)), Row(ANU, MissingCell), Row(BEN, TextCell),
      Row(BEN, InfCell), Row(ANSWER_KEY, MissingCell), Row(BLANK, IntCell(2)) }

RowLists(choices) == UNION { [1..n -> choices] : n \in 0..MaxRows }

NoHeaderFile ==
    [hdr |-> FALSE, cls |-> <<>>, subj |-> <<>>, nq |-> 0, rows |-> <<>>]

TotalsFiles ==
    { NoHeaderFile } \cup
    { [hdr |-> TRUE, cls |-> c, subj |-> s, nq |-> q, rows |-> rs] :
        c \in RawClasses, s \in RawSubjects, q \in QCounts,
        rs \in RowLists(RowChoices) }

CellFiles ==
    { NoHeaderFile } \cup
    { [hdr |-> TRUE, cls |-> <<"3", " ", "a">>, subj |-> <<"M", "a", "t", "h">>, nq |-> q, rows |-> rs] :
        q \in QCounts, rs \in RowLists(CellRowChoices) }

ALG == <<"A", "l", "g">>
GEO == <<"G", "e", "o">>

SkillsFiles ==
    { [hdr |-> FALSE, cls |-> <<>>, subj |-> <<>>, rows |-> <<>>],
      [hdr |-> TRUE, cls |-> <<"3", " ", "a">>, subj |-> <<"M", "a", "t", "h">>,
       rows |-> << [skill_name |-> ALG, questions |-> <<"1", ",", "2">>,
                    section |-> 500, school |-> 600],
                   [skill_name |-> GEO, questions |-> <<"0", ",", " ", "3", ",", "x">>,
                    section |-> 400, school |-> 450] >>] }

QLevelFiles ==
    { [fname |-> <<"n", "o", "t", "e", "s", ".", "c", "s", "v">>, rows |-> <<>>],
      [fname |-> <<"3", "-", "A", "_", "M", "a", "t", "h", "s", ".", "c", "s", "v">>,
       rows |-> << [student_name |-> <<"A", "N", "U", "K">>,
                    question_responses |-> <<1, 0, 1>>] >>] }


----------------------------------------------------------------------------
(* The dashboard: config.py, the role filter and the at-risk table *)

ClassA(grade) == <<grade, "-", "A">>

\* config.PASSWORDS
PASSWORDS ==
    [password \in {"iMBMRmR9lbs", "P-6zeiPTWrQ", "9Z-Pv08suVs"} |->
        CASE password = "iMBMRmR9lbs" ->
                 [role |-> "management", name |-> "Management",
                  allowed_classes |-> <<ClassA("3"), ClassA("4"), ClassA("5"),
                                        ClassA("6"), ClassA("7"), ClassA("8")>>,
                  description |-> "Full access to all classes and data"]
          [] password = "P-6zeiPTWrQ" ->
                 [role |-> "elementary", name |-> "Elementary Program",
                  allowed_classes |-> <<ClassA("3"), ClassA("4"), ClassA("5")>>,
                  description |-> "Access to Classes 3, 4, and 5"]
          [] password = "9Z-Pv08suVs" ->
                 [role |-> "middle", name |-> "Middle School Program",
                  allowed_classes |-> <<ClassA("6"), ClassA("7"), ClassA("8")>>,
                  description |-> "Access to Classes 6, 7, and 8"]]

\* x in a list
InList(x, list) == \E i \in 1..Len(list) : list[i] = x

\* the objects of a call of filter_data_by_role: the dict the caller passed,
\* the dict data.copy() makes, and the one the name filtered_data is bound to

\* filtered_data = data, without the copy
dict_copy_Alias(objects) == [objects EXCEPT !.filtered_data = "data"]

\* filtered_data = data.copy(): a new dict with the keys and values of data
dict_copy(objects) ==
    [objects EXCEPT !.copy = objects.data, !.filtered_data = "copy"]

\* filtered_data[key] = value
SetItem(objects, key, value) ==
    [objects EXCEPT ![objects.filtered_data][key] = value]

\* the percentages of the students of the reports, report after report
AllPercentages(reports) ==
    Concat([i \in 1..Len(reports) |-> Column(reports[i].students, "percentage")])

\* sum(len(names) for names in student_names_by_class.values())
NamesByClass(reports) ==
    Cardinality(UNION {{<<reports[i].class_section, reports[i].students[k].name>> :
                           k \in 1..Len(reports[i].students)} :
                       i \in 1..Len(reports)})

\* the school_statistics filter_data_by_role computes from the filtered reports
FilteredStatistics(reports) ==
    LET all_percentages == AllPercentages(reports)
    IN  [median |-> IF all_percentages # <<>> THEN Median(all_percentages) ELSE 0,
         average |-> IF all_percentages # <<>> THEN Mean1(all_percentages) ELSE 0,
         total_students |-> NamesByClass(reports),
         total_assessments |-> Len(all_percentages)]

\* AllowedOnly that keeps every entry
AllowedOnly_All(entries, allowed_classes) == entries

\* the reports or grade_medians entries whose class is in allowed_classes
AllowedOnly(entries, allowed_classes) ==
    SelectSeq(entries, LAMBDA e : InList(e.class_section, allowed_classes))

\* if filtered_data['reports']: filtered_data['school_statistics'] = {...}
RecomputeStatistics(objects) ==
    IF objects[objects.filtered_data].reports # <<>>
    THEN SetItem(objects, "school_statistics",
                 FilteredStatistics(objects[objects.filtered_data].reports))
    ELSE objects

\* the objects when filter_data_by_role returns
FilterObjects(data_in, allowed_classes) ==
    LET copied == dict_copy([data |-> data_in, copy |-> data_in,
                             filtered_data |-> "data"])
        with_classes ==
            SetItem(copied, "classes",
                    SelectSeq(copied.data.classes,
                              LAMBDA c : InList(c, allowed_classes)))
        with_reports ==
            SetItem(with_classes, "reports",
                    AllowedOnly(with_classes.data.reports, allowed_classes))
        with_medians ==
            SetItem(with_reports, "grade_medians",
                    AllowedOnly(with_reports.data.grade_medians, allowed_classes))
    IN  RecomputeStatistics(with_medians)

\* what filter_data_by_role returns
filter_data_by_role(data_in, allowed_classes) ==
    LET objects == FilterObjects(data_in, allowed_classes)
    IN  objects[objects.filtered_data]

\* identify_at_risk_students: the (class, name) keys of student_scores in the
\* order they were first met
StudentKeys(reports) ==
    Unique(Concat([i \in 1..Len(reports) |->
                      [k \in 1..Len(reports[i].students) |->
                          <<reports[i].class_section, reports[i].students[k].name>>]]))

\* student_scores[key]['subjects'][subj]['below_threshold']: of the last
\* student of that name in the report
BelowThreshold(report, name, threshold) ==
    LET rows == SelectSeq(report.students, LAMBDA t : t.name = name)
    IN  rows[Len(rows)].percentage < threshold

\* below_count of a key
BelowCount(reports, key, threshold) ==
    Cardinality({reports[i].subject :
                    i \in {j \in 1..Len(reports) :
                               /\ reports[j].class_section = key[1]
                               /\ \E k \in 1..Len(reports[j].students) :
                                      reports[j].students[k].name = key[2]
                               /\ BelowThreshold(reports[j], key[2], threshold)}})

\* sort_values(['Count', 'Class'], ascending=[False, True])
AtRiskBefore(a, b) ==
    a.Count > b.Count \/ (a.Count = b.Count /\ StrLess(a.Class, b.Class))

\* the rows of the table identify_at_risk_students returns
identify_at_risk_students(data_in, threshold) ==
    LET keys == StudentKeys(data_in.reports)
        at_risk == SelectSeq(keys, LAMBDA key :
                       BelowCount(data_in.reports, key, threshold) >= 2)
    IN  SortSeq([i \in 1..Len(at_risk) |->
                    [Class |-> at_risk[i][1],
                     Student |-> at_risk[i][2],
                     Count |-> BelowCount(data_in.reports, at_risk[i], threshold)]],
                AtRiskBefore)

----------------------------------------------------------------------------
(* The dashboard: st.session_state and the groups file *)

Sessions == 1..MaxSessions

\* role_info = None
NoRoleInfo ==
    [role |-> "", name |-> "", allowed_classes |-> <<>>, description |-> ""]

\* st.session_state after the first run of main in a session: check_password
\* has set authenticated and role_info, the password box is empty and
\* saved_groups is not a key yet
NewSession ==
    [authenticated |-> FALSE, role_info |-> NoRoleInfo, password_input |-> "",
     has_saved_groups |-> FALSE, saved_groups |-> <<>>]

\* output/student_groups.json does not exist
NoGroupsFile == [exists |-> FALSE, groups |-> <<>>]

\* main returned before load_data
NoData == <<>>

----------------------------------------------------------------------------
(* build_school_data, step by step *)

NoOutput ==
    [school_info |-> SchoolInfo, classes |-> <<>>, subjects |-> <<>>, reports |-> <<>>,
     grade_medians |-> <<>>,
     school_statistics |-> [median |-> 0, average |-> 0,
                            total_students |-> 0, total_assessments |-> 0]]

Init ==
    /\ pc = "load_students"
    /\ err = ""
    /\ totals_dir = <<>>
    /\ all_data = <<>>
    /\ student_df = <<>>
    /\ skills_dir = <<>>
    /\ skills_all = <<>>
    /\ skills_df = <<>>
    /\ qlevel_files = <<>>
    /\ question_level_data = <<>>
    /\ warnings = <<>>
    /\ out = NoOutput
    /\ args = <<>>
    /\ ret = <<>>
    /\ session_state = [s \in Sessions |-> NewSession]
    /\ groups_file = NoGroupsFile
    /\ data = [s \in Sessions |-> NoData]

\* LoadStudentFile without the try/except: a file that fails ends the run
LoadStudentFile_Abort(f) ==
    /\ pc = "load_students"
    /\ Len(totals_dir) < MaxFiles
    /\ totals_dir' = Append(totals_dir, f)
    /\ IF TotalsError(f) = ""
       THEN /\ all_data' = Append(all_data, parse_student_performance_csv(f))
            /\ UNCHANGED <<pc, err>>
       ELSE /\ pc' = "failed"
            /\ err' = TotalsError(f)
            /\ UNCHANGED all_data
    /\ UNCHANGED <<student_df, skills_dir, skills_all, skills_df,
                   qlevel_files, question_level_data, warnings, out, args, ret>>
    /\ UNCHANGED dashboard_vars

\* load_all_student_performance: one turn of the loop over csv_files
LoadStudentFile(f) ==
    /\ pc = "load_students"
    /\ Len(totals_dir) < MaxFiles
    /\ totals_dir' = Append(totals_dir, f)
    /\ all_data' = IF TotalsError(f) = "" 
                   THEN Append(all_data, parse_student_performance_csv(f))
                   ELSE all_data
    /\ UNCHANGED <<pc, err, student_df, skills_dir, skills_all, skills_df,
                   qlevel_files, question_level_data, warnings,
                   out, args, ret>>
    /\ UNCHANGED dashboard_vars

\* load_all_student_performance: the checks around the loop, and the concat
EndStudentLoad ==
    /\ pc = "load_students"
    /\ IF totals_dir = <<>>
       THEN pc' = "failed" /\ err' = "FileNotFoundError" /\ UNCHANGED student_df
       ELSE IF all_data = <<>>
       THEN pc' = "failed" /\ err' = "ValueError" /\ UNCHANGED student_df
       ELSE pc' = "load_skills" /\ student_df' = Concat(all_data) /\ UNCHANGED err
    /\ UNCHANGED <<totals_dir, all_data, skills_dir, skills_all, skills_df,
                   qlevel_files, question_level_data, warnings,
                   out, args, ret>>
    /\ UNCHANGED dashboard_vars

\* load_all_skills_data: one turn of the loop over csv_files
LoadSkillsFile(f) ==
    /\ pc = "load_skills"
    /\ Len(skills_dir) < MaxAuxFiles
    /\ skills_dir' = Append(skills_dir, f)
    /\ skills_all' = IF SkillsError(f) = ""
                     THEN Append(skills_all, parse_skills_csv(f))
                     ELSE skills_all
    /\ UNCHANGED <<pc, err, totals_dir, all_data, student_df, skills_df,
                   qlevel_files, question_level_data, warnings, out, args, ret>>
    /\ UNCHANGED dashboard_vars

\* EndSkillsLoad without the two checks
EndSkillsLoad_NoCheck ==
    /\ pc = "load_skills"
    /\ pc' = "load_qlevel"
    /\ skills_df' = Concat(skills_all)
    /\ UNCHANGED <<err, totals_dir, all_data, student_df, skills_dir, skills_all,
                   qlevel_files, question_level_data, warnings, out, args, ret>>
    /\ UNCHANGED dashboard_vars

\* load_all_skills_data: the checks around the loop, and the concat
EndSkillsLoad ==
    /\ pc = "load_skills"
    /\ IF skills_dir = <<>>
       THEN pc' = "failed" /\ err' = "FileNotFoundError" /\ UNCHANGED skills_df
       ELSE IF skills_all = <<>>
       THEN pc' = "failed" /\ err' = "ValueError" /\ UNCHANGED skills_df
       ELSE pc' = "load_qlevel" /\ skills_df' = Concat(skills_all) /\ UNCHANGED err
    /\ UNCHANGED <<totals_dir, all_data, student_df, skills_dir, skills_all,
                   qlevel_files, question_level_data, warnings, out, args, ret>>
    /\ UNCHANGED dashboard_vars

\* load_all_question_level_data: one turn of the loop over csv_files
LoadQLevelFile(f) ==
    /\ pc = "load_qlevel"
    /\ Len(qlevel_files) < MaxAuxFiles
    /\ qlevel_files' = Append(qlevel_files, f)
    /\ question_level_data' =
           IF QLevelError(f) = ""
           THEN DictPut(question_level_data, parse_question_level_csv(f))
           ELSE question_level_data
    /\ UNCHANGED <<pc, err, totals_dir, all_data, student_df, skills_dir,
                   skills_all, skills_df, warnings, out, args, ret>>
    /\ UNCHANGED dashboard_vars

\* load_all_question_level_data returns: after the loop, or at once with {}
\* when the directory is missing or holds no file
EndQLevelLoad ==
    /\ pc = "load_qlevel"
    /\ pc' = "validate"
    /\ UNCHANGED <<err, totals_dir, all_data, student_df, skills_dir, skills_all,
                   skills_df, qlevel_files, question_level_data, warnings, out,
                   args, ret>>
    /\ UNCHANGED dashboard_vars

\* build_school_data with validate=True and question-level data loaded
Validate ==
    /\ pc = "validate"
    /\ question_level_data # <<>>
    /\ IF student_df = <<>>
       THEN pc' = "failed" /\ err' = "KeyError" /\ UNCHANGED warnings
       ELSE IF \E i \in 1..Len(question_level_data) :
                  NameRaises(question_level_data[i].df)
       THEN pc' = "failed" /\ err' = "AttributeError" /\ UNCHANGED warnings
       ELSE /\ pc' = "build"
            /\ warnings' = <<validate_data_sources(student_df, question_level_data)>>
            /\ UNCHANGED err
    /\ UNCHANGED <<totals_dir, all_data, student_df, skills_dir, skills_all,
                   skills_df, qlevel_files, question_level_data, out, args, ret>>
    /\ UNCHANGED dashboard_vars

\* build_school_data with validate=False, or with no question-level data
SkipValidate ==
    /\ pc = "validate"
    /\ pc' = "build"
    /\ UNCHANGED <<err, totals_dir, all_data, student_df, skills_dir, skills_all,
                   skills_df, qlevel_files, question_level_data, warnings, out,
                   args, ret>>
    /\ UNCHANGED dashboard_vars

\* build_school_data from "Get unique classes and subjects" to its return
BuildReports ==
    /\ pc = "build"
    /\ IF student_df = <<>>
       THEN pc' = "failed" /\ err' = "KeyError" /\ UNCHANGED out
       ELSE LET built == SchoolData(student_df, skills_df, question_level_data)
            IN  IF \E i \in 1..Len(built.reports) : built.reports[i].raised
                THEN /\ pc' = "failed"
                     /\ err' = built.reports[
                                   CHOOSE i \in 1..Len(built.reports) :
                                       /\ built.reports[i].raised
                                       /\ \A j \in 1..(i - 1) :
                                              ~built.reports[j].raised].error
                     /\ UNCHANGED out
                ELSE pc' = "done" /\ out' = built /\ UNCHANGED err
    /\ UNCHANGED <<totals_dir, all_data, student_df, skills_dir, skills_all,
                   skills_df, qlevel_files, question_level_data, warnings,
                   args, ret>>
    /\ UNCHANGED dashboard_vars

Next ==
    \/ \E f \in TotalsFiles : LoadStudentFile(f)
    \/ EndStudentLoad
    \/ \E f \in SkillsFiles : LoadSkillsFile(f)
    \/ EndSkillsLoad
    \/ \E f \in QLevelFiles : LoadQLevelFile(f)
    \/ EndQLevelLoad
    \/ Validate
    \/ SkipValidate
    \/ BuildReports

Spec == Init /\ [][Next]_vars

----------------------------------------------------------------------------
(* The totals loader on its own: load_all_student_performance over files   *)
(* with every kind of Total Score cell                                     *)

NextTotals ==
    \/ \E f \in CellFiles : LoadStudentFile(f)
    \/ EndStudentLoad

SpecTotals == Init /\ [][NextTotals]_vars

----------------------------------------------------------------------------
(* calculate_student_skill_performance on its own *)

QuestionLists == UNION { [1..n -> 0..MaxResp] : n \in 0..MaxSkillQ }

SkillNames == <<ALG, GEO>>

\* n skills, the i-th named SkillNames[i]
SkillLists ==
    UNION { { [i \in 1..n |->
                 [skill_name |-> SkillNames[i], questions |-> qs[i],
                  section_performance |-> 0, school_performance |-> 0]] :
              qs \in [1..n -> QuestionLists] } : n \in 1..MaxSkills }

ResponseVectors == UNION { [1..n -> {0, 1}] : n \in 0..MaxResp }

InitSkill ==
    /\ pc = "call"
    /\ err = ""
    /\ totals_dir = <<>>
    /\ all_data = <<>>
    /\ student_df = <<>>
    /\ skills_dir = <<>>
    /\ skills_all = <<>>
    /\ skills_df = <<>>
    /\ qlevel_files = <<>>
    /\ question_level_data = <<>>
    /\ warnings = <<>>
    /\ out = NoOutput
    /\ args \in [question_responses : ResponseVectors,
                 skills : SkillLists,
                 total_questions : 0..MaxResp]
    /\ ret = <<>>
    /\ session_state = [s \in Sessions |-> NewSession]
    /\ groups_file = NoGroupsFile
    /\ data = [s \in Sessions |-> NoData]

CallSkillPerformance ==
    /\ pc = "call"
    /\ pc' = "returned"
    /\ ret' = calculate_student_skill_performance(
                  args.question_responses, args.skills, args.total_questions)
    /\ UNCHANGED <<err, totals_dir, all_data, student_df, skills_dir, skills_all,
                   skills_df, qlevel_files, question_level_data, warnings, out,
                   args>>
    /\ UNCHANGED dashboard_vars

NextSkill == CallSkillPerformance

SpecSkill == InitSkill /\ [][NextSkill]_vars

----------------------------------------------------------------------------
(* build_school_data from the point where the three loaders have returned: *)
(* validation and report building over tables with names that collide,     *)
(* contain each other or are missing                                       *)

RAVI == <<"R", "a", "v", "i", " ", "K", "u", "m", "a", "r">>
RAVI_S == <<"R", "a", "v", "i", " ", "K", "u", "m", "a", "r", " ", "S">>
RAVI_JOINED == <<"R", "a", "v", "i", "K", "u", "m", "a", "r">>
ZED == <<"Z", "E", "D">>

ReportNames == {ANU, RAVI, RAVI_S, RAVI_JOINED}

\* a totals file of two questions whose students all scored 1
ReportFile(c, s, names) ==
    [hdr |-> TRUE, cls |-> c, subj |-> s, nq |-> 2,
     rows |-> [i \in 1..Len(names) |-> Row(names[i], IntCell(1))]]

\* the listings of the totals directory: a file of class 3-A Maths, alone or
\* followed by a file of another class, or of another subject of the class
ReportTotalsDirs ==
    LET first == {ReportFile(<<"3", " ", "a">>, <<"M", "a", "t", "h">>, ns) :
                      ns \in UNION {[1..n -> ReportNames] : n \in 0..MaxRows}}
        second == {ReportFile(<<"1", "0", "-", "B">>, <<"M", "a", "t", "h">>, <<RAVI_S>>),
                   ReportFile(<<"3", " ", "a">>, <<"E", "n", "g", "l", "i", "s", "h">>,
                              <<RAVI_S>>)}
    IN  {<<f>> : f \in first} \cup {<<f, g>> : f \in first, g \in second}

\* a skills file of class 3-A Maths whose second skill has the questions qs
ReportSkillsFile(qs) ==
    [hdr |-> TRUE, cls |-> <<"3", " ", "a">>, subj |-> <<"M", "a", "t", "h">>,
     rows |-> << [skill_name |-> ALG, questions |-> <<"1", ",", "2">>,
                  section |-> 500, school |-> 600],
                 [skill_name |-> GEO, questions |-> qs,
                  section |-> 400, school |-> 450] >>]

\* question 2 is listed under one skill, or under both
ReportSkillsDirs ==
    { <<ReportSkillsFile(<<"0", ",", " ", "3", ",", "x">>)>>,
      <<ReportSkillsFile(<<"2", ",", "3">>)>> }

ReportQRows ==
    { [student_name |-> <<"A", "N", "U", "K">>, question_responses |-> <<1, 0, 1>>],
      [student_name |-> ANU, question_responses |-> <<0, 1, 1>>],
      [student_name |-> <<"R", "A", "V", "I", "K", "U", "M", "A", "R">>,
       question_responses |-> <<1, 1, 0>>],
      [student_name |-> ZED, question_responses |-> <<0, 0, 1>>],
      [student_name |-> NAN, question_responses |-> <<0, 0, 0>>] }

\* no question-level file, or one: named after 3-A Maths, or after 3-A Math,
\* a subject no totals file normalizes to
ReportQLevelDirs ==
    { <<>> } \cup
    { <<[fname |-> n, rows |-> rs]>> :
        n \in { <<"3", "-", "A", "_", "M", "a", "t", "h", "s", ".", "c", "s", "v">>,
                <<"3", "-", "A", "_", "M", "a", "t", "h", ".", "c", "s", "v">> },
        rs \in UNION {[1..n -> ReportQRows] : n \in 0..MaxRows} }

\* the dict load_all_question_level_data builds from a listing
RECURSIVE LoadedQLevel(_)
LoadedQLevel(files) ==
    IF files = <<>> THEN <<>>
    ELSE LET f == files[Len(files)]
             before == LoadedQLevel(SubSeq(files, 1, Len(files) - 1))
         IN  IF QLevelError(f) = ""
             THEN DictPut(before, parse_question_level_csv(f))
             ELSE before

InitReport ==
    /\ pc = "validate"
    /\ err = ""
    /\ totals_dir \in ReportTotalsDirs
    /\ all_data = [i \in 1..Len(totals_dir) |->
                      parse_student_performance_csv(totals_dir[i])]
    /\ student_df = Concat(all_data)
    /\ skills_dir \in ReportSkillsDirs
    /\ skills_all = [i \in 1..Len(skills_dir) |-> parse_skills_csv(skills_dir[i])]
    /\ skills_df = Concat(skills_all)
    /\ qlevel_files \in ReportQLevelDirs
    /\ question_level_data = LoadedQLevel(qlevel_files)
    /\ warnings = <<>>
    /\ out = NoOutput
    /\ args = <<>>
    /\ ret = <<>>
    /\ session_state = [s \in Sessions |-> NewSession]
    /\ groups_file = NoGroupsFile
    /\ data = [s \in Sessions |-> NoData]

NextReport ==
    \/ Validate
    \/ SkipValidate
    \/ BuildReports

SpecReport == InitReport /\ [][NextReport]_vars

----------------------------------------------------------------------------
(* normalize_class_section on its own, applied once and again to its result *)

LabelChars == {"3", "0", " ", "-", "A", "b"}

RawLabels == UNION {[1..n -> LabelChars] : n \in 0..MaxLabel}

InitNormalize ==
    /\ pc = "call"
    /\ err = ""
    /\ totals_dir = <<>>
    /\ all_data = <<>>
    /\ student_df = <<>>
    /\ skills_dir = <<>>
    /\ skills_all = <<>>
    /\ skills_df = <<>>
    /\ qlevel_files = <<>>
    /\ question_level_data = <<>>
    /\ warnings = <<>>
    /\ out = NoOutput
    /\ args \in [raw_class : RawLabels]
    /\ ret = <<>>
    /\ session_state = [s \in Sessions |-> NewSession]
    /\ groups_file = NoGroupsFile
    /\ data = [s \in Sessions |-> NoData]

CallNormalize ==
    /\ pc = "call"
    /\ pc' = "returned"
    /\ ret' = [once |-> normalize_class_section(args.raw_class),
               again |-> normalize_class_section(
                             normalize_class_section(args.raw_class))]
    /\ UNCHANGED <<err, totals_dir, all_data, student_df, skills_dir, skills_all,
                   skills_df, qlevel_files, question_level_data, warnings, out,
                   args>>
    /\ UNCHANGED dashboard_vars

NextNormalize == CallNormalize

SpecNormalize == InitNormalize /\ [][NextNormalize]_vars

----------------------------------------------------------------------------
(* build_school_data from the point where the loaders have returned, over  *)
(* totals files of many classes and subjects and no question-level data    *)

ClassLabels ==
    { <<"9", " ", "a">>, <<"1", "0", "-", "A">>, <<"1", "0", " ", "b">>,
      <<"3">>, <<"K", "G">> }

SubjectLabels ==
    { <<"M", "a", "t", "h">>, <<"E", "n", "g", "l", "i", "s", "h">>,
      <<"a", "r", "t">> }

ClassFiles == {ReportFile(c, s, <<ANU>>) : c \in ClassLabels, s \in SubjectLabels}

InitClasses ==
    /\ pc = "build"
    /\ err = ""
    /\ totals_dir \in UNION {[1..n -> ClassFiles] : n \in 1..MaxClassFiles}
    /\ all_data = [i \in 1..Len(totals_dir) |->
                      parse_student_performance_csv(totals_dir[i])]
    /\ student_df = Concat(all_data)
    /\ skills_dir \in {<<ReportSkillsFile(<<"3">>)>>}
    /\ skills_all = [i \in 1..Len(skills_dir) |-> parse_skills_csv(skills_dir[i])]
    /\ skills_df = Concat(skills_all)
    /\ qlevel_files = <<>>
    /\ question_level_data = <<>>
    /\ warnings = <<>>
    /\ out = NoOutput
    /\ args = <<>>
    /\ ret = <<>>
    /\ session_state = [s \in Sessions |-> NewSession]
    /\ groups_file = NoGroupsFile
    /\ data = [s \in Sessions |-> NoData]

NextClasses == BuildReports

SpecClasses == InitClasses /\ [][NextClasses]_vars

----------------------------------------------------------------------------
(* build_school_data from the point where the loaders have returned, over  *)
(* a school of up to three files whose students scored differently         *)

\* rows of a file of five questions: the percentages 0.0, 60.0 and 100.0
SchoolRowChoices ==
    { Row(ANU, IntCell(0)), Row(ANU, IntCell(3)),
      Row(BEN, IntCell(3)), Row(BEN, IntCell(5)) }

SchoolFile(c, s, rows) ==
    [hdr |-> TRUE, cls |-> c, subj |-> s, nq |-> 5, rows |-> rows]

SchoolFilesOf(c, s) ==
    {SchoolFile(c, s, rows) :
        rows \in UNION {[1..n -> SchoolRowChoices] : n \in 1..MaxSchoolRows}}

\* the listings: class 3-A Maths, then another subject of the class or
\* another class, then possibly a third file
SchoolDirs ==
    LET first == SchoolFilesOf(<<"3", " ", "a">>, <<"M", "a", "t", "h">>)
        second == SchoolFilesOf(<<"3", " ", "a">>, <<"E", "n", "g", "l", "i", "s", "h">>)
                  \cup SchoolFilesOf(<<"4", "-", "A">>, <<"M", "a", "t", "h">>)
        third == SchoolFilesOf(<<"4", "-", "A">>, <<"M", "a", "t", "h">>)
                 \cup SchoolFilesOf(<<"6", "-", "A">>, <<"E", "n", "g", "l", "i", "s", "h">>)
    IN  {<<f, g>> : f \in first, g \in second}
        \cup {<<f, g, h>> : f \in first, g \in second, h \in third}

InitSchool ==
    /\ pc = "build"
    /\ err = ""
    /\ totals_dir \in SchoolDirs
    /\ all_data = [i \in 1..Len(totals_dir) |->
                      parse_student_performance_csv(totals_dir[i])]
    /\ student_df = Concat(all_data)
    /\ skills_dir \in {<<ReportSkillsFile(<<"3">>)>>}
    /\ skills_all = [i \in 1..Len(skills_dir) |-> parse_skills_csv(skills_dir[i])]
    /\ skills_df = Concat(skills_all)
    /\ qlevel_files = <<>>
    /\ question_level_data = <<>>
    /\ warnings = <<>>
    /\ out = NoOutput
    /\ args = <<>>
    /\ ret = <<>>
    /\ session_state = [s \in Sessions |-> NewSession]
    /\ groups_file = NoGroupsFile
    /\ data = [s \in Sessions |-> NoData]

NextSchool == BuildReports

SpecSchool == InitSchool /\ [][NextSchool]_vars

----------------------------------------------------------------------------
(* calculate_class_statistics on its own *)

\* (score, total_questions) of the rows of class 3-A Maths: the percentages
\* 0.0, 33.3, 50.0, 60.0, 66.7 and 100.0
ScoredOutOf == {<<0, 3>>, <<1, 3>>, <<1, 2>>, <<3, 5>>, <<2, 3>>, <<3, 3>>}

StatRow(subject, score, total_questions) ==
    [student_name |-> ANU,
     score |-> score,
     total_questions |-> total_questions,
     percentage |-> Percentage(score, total_questions),
     class_section |-> <<"3", "-", "A">>,
     subject |-> subject]

\* rows of 3-A Maths, and a row of another subject of the class
StatRows ==
    {StatRow(<<"M", "a", "t", "h", "s">>, p[1], p[2]) : p \in ScoredOutOf}
    \cup {StatRow(<<"E", "n", "g", "l", "i", "s", "h">>, 0, 3)}

InitStatistics ==
    /\ pc = "call"
    /\ err = ""
    /\ totals_dir = <<>>
    /\ all_data = <<>>
    /\ student_df = <<>>
    /\ skills_dir = <<>>
    /\ skills_all = <<>>
    /\ skills_df = <<>>
    /\ qlevel_files = <<>>
    /\ question_level_data = <<>>
    /\ warnings = <<>>
    /\ out = NoOutput
    /\ args \in [student_df : UNION {[1..n -> StatRows] : n \in 0..MaxStatRows},
                 class_section : {<<"3", "-", "A">>},
                 subject : {<<"M", "a", "t", "h", "s">>}]
    /\ ret = <<>>
    /\ session_state = [s \in Sessions |-> NewSession]
    /\ groups_file = NoGroupsFile
    /\ data = [s \in Sessions |-> NoData]

\* the call returns None, here <<>>, when the pair has no row
CallStatistics ==
    /\ pc = "call"
    /\ pc' = "returned"
    /\ ret' = IF StatisticsRows(args.student_df, args.class_section, args.subject)
                     = <<>>
              THEN <<>>
              ELSE calculate_class_statistics(args.student_df, args.class_section,
                                              args.subject)
    /\ UNCHANGED <<err, totals_dir, all_data, student_df, skills_dir, skills_all,
                   skills_df, qlevel_files, question_level_data, warnings, out,
                   args>>
    /\ UNCHANGED dashboard_vars

NextStatistics == CallStatistics

SpecStatistics == InitStatistics /\ [][NextStatistics]_vars

----------------------------------------------------------------------------
(* The dashboard: main, run once for every interaction of a session, over  *)
(* the structure build_school_data returned                                *)

\* what can be typed into the password box: the keys of PASSWORDS, nothing,
\* and a wrong guess
TypedPasswords == DOMAIN PASSWORDS \cup {"", "guess"}

GroupNames == {"Remedial A", "Remedial B"}

\* the group a session saves under a name
GroupOf(group_name) ==
    [subject |-> <<"M", "a", "t", "h", "s">>,
     students |-> IF group_name = "Remedial A"
                  THEN <<"Anu K (3-A)">> ELSE <<"Ben (3-A)", "Anu K (4-A)">>]

\* two schools: classes 3-A and 4-A, and those with class 6-A
DashboardDirs ==
    LET f3 == SchoolFile(<<"3", " ", "a">>, <<"M", "a", "t", "h">>,
                         <<Row(ANU, IntCell(0)), Row(BEN, IntCell(5))>>)
        f4 == SchoolFile(<<"4", "-", "A">>, <<"M", "a", "t", "h">>,
                         <<Row(ANU, IntCell(3))>>)
        f6 == SchoolFile(<<"6", "-", "A">>, <<"E", "n", "g", "l", "i", "s", "h">>,
                         <<Row(BEN, IntCell(3))>>)
    IN  {<<f3, f4>>, <<f3, f4, f6>>}

InitDashboard ==
    /\ pc = "build"
    /\ err = ""
    /\ totals_dir \in DashboardDirs
    /\ all_data = [i \in 1..Len(totals_dir) |->
                      parse_student_performance_csv(totals_dir[i])]
    /\ student_df = Concat(all_data)
    /\ skills_dir \in {<<ReportSkillsFile(<<"3">>)>>}
    /\ skills_all = [i \in 1..Len(skills_dir) |-> parse_skills_csv(skills_dir[i])]
    /\ skills_df = Concat(skills_all)
    /\ qlevel_files = <<>>
    /\ question_level_data = <<>>
    /\ warnings = <<>>
    /\ out = NoOutput
    /\ args = <<>>
    /\ ret = <<>>
    /\ session_state = [s \in Sessions |-> NewSession]
    /\ groups_file = NoGroupsFile
    /\ data = [s \in Sessions |-> NoData]

build_vars == <<pc, err, totals_dir, all_data, student_df, skills_dir, skills_all,
                skills_df, qlevel_files, question_level_data, warnings, out,
                args, ret>>

\* main past the login gate: load_data and filter_data_by_role
MainData(role_info) == <<filter_data_by_role(out, role_info.allowed_classes)>>

\* a password is typed into the box; the run of main shows the form again
EnterPassword(s, password) ==
    /\ pc = "done"
    /\ ~session_state[s].authenticated
    /\ password # session_state[s].password_input
    /\ session_state' = [session_state EXCEPT ![s].password_input = password]
    /\ data' = [data EXCEPT ![s] = NoData]
    /\ UNCHANGED groups_file
    /\ UNCHANGED build_vars

\* CheckLogin that lets every password in, as management
CheckLogin_AcceptAll(session) ==
    [session EXCEPT !.authenticated = TRUE,
                    !.role_info = PASSWORDS["iMBMRmR9lbs"]]

\* check_password, the Login button clicked: st.session_state afterwards
CheckLogin(session) ==
    IF session.password_input \in DOMAIN PASSWORDS
    THEN [session EXCEPT !.authenticated = TRUE,
                         !.role_info = PASSWORDS[session.password_input]]
    ELSE session

\* the Login button: on a key of PASSWORDS the session is authenticated and
\* st.rerun() runs main again, now past the gate; otherwise main returns
Login(s) ==
    /\ pc = "done"
    /\ ~session_state[s].authenticated
    /\ LET session == CheckLogin(session_state[s])
       IN  /\ session_state' = [session_state EXCEPT ![s] = session]
           /\ data' = [data EXCEPT ![s] = IF session.authenticated
                                          THEN MainData(session.role_info)
                                          ELSE NoData]
    /\ UNCHANGED groups_file
    /\ UNCHANGED build_vars

\* load_saved_groups
load_saved_groups == IF groups_file.exists THEN groups_file.groups ELSE <<>>

\* the Group Analysis tab is opened: saved_groups is loaded once a session
OpenGroupAnalysis(s) ==
    /\ pc = "done"
    /\ session_state[s].authenticated
    /\ ~session_state[s].has_saved_groups
    /\ session_state' = [session_state EXCEPT ![s].has_saved_groups = TRUE,
                                              ![s].saved_groups = load_saved_groups]
    /\ data' = [data EXCEPT ![s] = MainData(session_state[s].role_info)]
    /\ UNCHANGED groups_file
    /\ UNCHANGED build_vars

\* a dict with a key set
DictSet(dict, key, value) ==
    [k \in DOMAIN dict \cup {key} |-> IF k = key THEN value ELSE dict[k]]

\* del dict[key]
DictDel(dict, key) == [k \in DOMAIN dict \ {key} |-> dict[k]]

\* save_groups
save_groups(groups) == [exists |-> TRUE, groups |-> groups]

\* the Save Group button
SaveGroup(s, group_name) ==
    /\ pc = "done"
    /\ session_state[s].authenticated
    /\ session_state[s].has_saved_groups
    /\ LET saved == DictSet(session_state[s].saved_groups, group_name,
                            GroupOf(group_name))
       IN  /\ session_state' = [session_state EXCEPT ![s].saved_groups = saved]
           /\ groups_file' = save_groups(saved)
    /\ data' = [data EXCEPT ![s] = MainData(session_state[s].role_info)]
    /\ UNCHANGED build_vars

\* the Del button of a saved group
DelGroup(s, grp_name) ==
    /\ pc = "done"
    /\ session_state[s].authenticated
    /\ session_state[s].has_saved_groups
    /\ grp_name \in DOMAIN session_state[s].saved_groups
    /\ LET saved == DictDel(session_state[s].saved_groups, grp_name)
       IN  /\ session_state' = [session_state EXCEPT ![s].saved_groups = saved]
           /\ groups_file' = save_groups(saved)
    /\ data' = [data EXCEPT ![s] = MainData(session_state[s].role_info)]
    /\ UNCHANGED build_vars

NextDashboard ==
    \/ BuildReports
    \/ \E s \in Sessions, password \in TypedPasswords : EnterPassword(s, password)
    \/ \E s \in Sessions : Login(s)
    \/ \E s \in Sessions : OpenGroupAnalysis(s)
    \/ \E s \in Sessions, group_name \in GroupNames : SaveGroup(s, group_name)
    \/ \E s \in Sessions, grp_name \in GroupNames : DelGroup(s, grp_name)

SpecDashboard == InitDashboard /\ [][NextDashboard]_vars

----------------------------------------------------------------------------
(* filter_data_by_role on its own, called with the structure                *)
(* build_school_data returned for a school of up to three files            *)

\* the listings: class 3-A Maths, then another subject of the class or class
\* 4-A, then possibly a file of one row of class 4-A or 6-A
FilterDirs ==
    LET first == SchoolFilesOf(<<"3", " ", "a">>, <<"M", "a", "t", "h">>)
        second == SchoolFilesOf(<<"3", " ", "a">>, <<"E", "n", "g", "l", "i", "s", "h">>)
                  \cup SchoolFilesOf(<<"4", "-", "A">>, <<"M", "a", "t", "h">>)
        third == {SchoolFile(c, <<"E", "n", "g", "l", "i", "s", "h">>, <<row>>) :
                     c \in {<<"4", "-", "A">>, <<"6", "-", "A">>},
                     row \in SchoolRowChoices}
    IN  {<<f, g>> : f \in first, g \in second}
        \cup {<<f, g, h>> : f \in first, g \in second, h \in third}

\* the lists of config.PASSWORDS, a list of one class, and the empty list
AllowedLists ==
    {PASSWORDS[password].allowed_classes : password \in DOMAIN PASSWORDS}
    \cup {<<ClassA("4")>>, <<>>}

InitFilter ==
    /\ pc = "build"
    /\ err = ""
    /\ totals_dir \in FilterDirs
    /\ all_data = [i \in 1..Len(totals_dir) |->
                      parse_student_performance_csv(totals_dir[i])]
    /\ student_df = Concat(all_data)
    /\ skills_dir \in {<<ReportSkillsFile(<<"3">>)>>}
    /\ skills_all = [i \in 1..Len(skills_dir) |-> parse_skills_csv(skills_dir[i])]
    /\ skills_df = Concat(skills_all)
    /\ qlevel_files = <<>>
    /\ question_level_data = <<>>
    /\ warnings = <<>>
    /\ out = NoOutput
    /\ args = <<>>
    /\ ret = <<>>
    /\ session_state = [s \in Sessions |-> NewSession]
    /\ groups_file = NoGroupsFile
    /\ data = [s \in Sessions |-> NoData]

\* filter_data_by_role(full_data, allowed_classes): args holds the dict that
\* was passed, as it is when the call returns
CallFilter(allowed_classes) ==
    /\ pc = "done"
    /\ pc' = "returned"
    /\ LET objects == FilterObjects(out, allowed_classes)
       IN  /\ args' = [data |-> objects.data, allowed_classes |-> allowed_classes]
           /\ ret' = objects[objects.filtered_data]
    /\ UNCHANGED <<err, totals_dir, all_data, student_df, skills_dir, skills_all,
                   skills_df, qlevel_files, question_level_data, warnings, out>>
    /\ UNCHANGED dashboard_vars

NextFilter ==
    \/ BuildReports
    \/ \E allowed_classes \in AllowedLists : CallFilter(allowed_classes)

SpecFilter == InitFilter /\ [][NextFilter]_vars

----------------------------------------------------------------------------
(* identify_at_risk_students on its own, called with the structure          *)
(* build_school_data returned for two classes of up to three subjects      *)

\* the student rows of a file of class 3-A: one student, or two of one name
AtRiskRows ==
    { <<Row(ANU, IntCell(0))>>, <<Row(ANU, IntCell(3))>>, <<Row(ANU, IntCell(5))>>,
      <<Row(BEN, IntCell(0))>>,
      <<Row(ANU, IntCell(0)), Row(ANU, IntCell(3))>>,
      <<Row(ANU, IntCell(3)), Row(ANU, IntCell(0))>> }

\* three files of class 3-A, then none, one or two files of class 10-A
AtRiskDirs ==
    LET Of3(subj) == {SchoolFile(<<"3", " ", "a">>, subj, rows) : rows \in AtRiskRows}
        Of10(subj) == {SchoolFile(<<"1", "0", "-", "A">>, subj, <<Row(ANU, IntCell(k))>>) :
                          k \in {0, 5}}
        three == {<<f, g, h>> : f \in Of3(<<"M", "a", "t", "h">>),
                                g \in Of3(<<"E", "n", "g", "l", "i", "s", "h">>),
                                h \in Of3(<<"E", "V", "S">>)}
        ten == {<<>>} \cup {<<f>> : f \in Of10(<<"M", "a", "t", "h">>)}
               \cup {<<f, g>> : f \in Of10(<<"M", "a", "t", "h">>),
                                g \in Of10(<<"E", "n", "g", "l", "i", "s", "h">>)}
    IN  {a \o b : a \in three, b \in ten}

\* the default threshold 60.0, and 100.0
Thresholds == {600, 1000}

InitAtRisk ==
    /\ pc = "build"
    /\ err = ""
    /\ totals_dir \in AtRiskDirs
    /\ all_data = [i \in 1..Len(totals_dir) |->
                      parse_student_performance_csv(totals_dir[i])]
    /\ student_df = Concat(all_data)
    /\ skills_dir \in {<<ReportSkillsFile(<<"3">>)>>}
    /\ skills_all = [i \in 1..Len(skills_dir) |-> parse_skills_csv(skills_dir[i])]
    /\ skills_df = Concat(skills_all)
    /\ qlevel_files = <<>>
    /\ question_level_data = <<>>
    /\ warnings = <<>>
    /\ out = NoOutput
    /\ args = <<>>
    /\ ret = <<>>
    /\ session_state = [s \in Sessions |-> NewSession]
    /\ groups_file = NoGroupsFile
    /\ data = [s \in Sessions |-> NoData]

CallAtRisk(threshold) ==
    /\ pc = "done"
    /\ pc' = "returned"
    /\ args' = [data |-> out, threshold |-> threshold]
    /\ ret' = identify_at_risk_students(out, threshold)
    /\ UNCHANGED <<err, totals_dir, all_data, student_df, skills_dir, skills_all,
                   skills_df, qlevel_files, question_level_data, warnings, out>>
    /\ UNCHANGED dashboard_vars

NextAtRisk ==
    \/ BuildReports
    \/ \E threshold \in Thresholds : CallAtRisk(threshold)

SpecAtRisk == InitAtRisk /\ [][NextAtRisk]_vars

----------------------------------------------------------------------------
(* What the claims are stated over *)

StudentNames == {ANU, BEN}

\* a row of a totals file that describes a student: neither the answer key,
\* nor a summary row, nor a row without a name
IsStudentRow(r) == r.name \in StudentNames

Reports == {out.reports[i] : i \in 1..Len(out.reports)}

ReportFor(c, s) == {r \in Reports : r.class_section = c /\ r.subject = s}

\* the totals files of the listing that were parsed without an exception
ParsedTotals == SelectSeq(totals_dir, LAMBDA f : TotalsError(f) = "")

\* the k-th smallest value of a sequence, found by counting
OrderStatistic(xs, k) ==
    CHOOSE v \in {xs[i] : i \in 1..Len(xs)} :
        /\ Cardinality({i \in 1..Len(xs) : xs[i] < v}) < k
        /\ k <= Cardinality({i \in 1..Len(xs) : xs[i] <= v})

\* the statistical median, in twentieths of a percent for values in tenths
StatisticalMedian(xs) ==
    IF Len(xs) % 2 = 1
    THEN 2 * OrderStatistic(xs, (Len(xs) + 1) \div 2)
    ELSE OrderStatistic(xs, Len(xs) \div 2) + OrderStatistic(xs, Len(xs) \div 2 + 1)

\* how many members of a sequence satisfy a test
Count(xs, Test(_)) == Cardinality({i \in 1..Len(xs) : Test(xs[i])})

SumOver(xs, F(_)) == SumSeq([i \in 1..Len(xs) |-> F(xs[i])])

----------------------------------------------------------------------------
(* C1 *)

\* C1: after build_school_data, every student row of every parsed totals file
\* has a StudentResult of its name in the report of its (class, subject) with
\* the row's score, the total_questions of the row's file, and the percentage
\* round(score / total_questions * 100, 1).
C1_ScoreFidelity ==
    pc = "done" =>
        \A i \in 1..Len(ParsedTotals) :
            LET f == ParsedTotals[i]
            IN  \A j \in 1..Len(f.rows) :
                    IsStudentRow(f.rows[j]) =>
                        \E r \in ReportFor(normalize_class_section(f.cls),
                                           normalize_subject(f.subj)) :
                            \E k \in 1..Len(r.students) :
                                /\ r.students[k].name = f.rows[j].name
                                /\ r.students[k].score =
                                       (IF f.rows[j].total.k = "int"
                                        THEN f.rows[j].total.v ELSE 0)
                                /\ r.students[k].total_questions = f.nq
                                /\ r.students[k].percentage =
                                       RoundDiv(r.students[k].score * 1000, f.nq)

----------------------------------------------------------------------------
(* C2 *)

\* C2: the class_median of every emitted ClassReport is the statistical median
\* (the mean of the two middle values when the count is even) of the
\* percentages of the StudentResults in that report.
C2_MedianOfListedStudents ==
    pc = "done" =>
        \A r \in Reports :
            r.class_median = StatisticalMedian(Column(r.students, "percentage"))

\* a report with an even number of students whose two middle percentages differ
C2_Witness ==
    /\ pc = "done"
    /\ \E r \in Reports :
           LET xs == Column(r.students, "percentage")
           IN  /\ Len(xs) % 2 = 0
               /\ OrderStatistic(xs, Len(xs) \div 2)
                      # OrderStatistic(xs, Len(xs) \div 2 + 1)

----------------------------------------------------------------------------
(* C3 *)

\* the student rows of the parsed totals files
ParsedStudentRows ==
    SumOver(ParsedTotals, LAMBDA f : Count(f.rows, IsStudentRow))

----------------------------------------------------------------------------
(* C4 *)

\* the (class, subject) pairs that have a student row in a parsed totals file
SourcePairs ==
    {<<normalize_class_section(ParsedTotals[i].cls),
       normalize_subject(ParsedTotals[i].subj)>> :
         i \in {j \in 1..Len(ParsedTotals) :
                    Count(ParsedTotals[j].rows, IsStudentRow) > 0}}

\* C4: the (class_section, subject) pairs of the emitted reports are the pairs
\* that have a student row in the totals source, each pair once.
C4_CoverageCompleteness ==
    pc = "done" =>
        /\ {<<r.class_section, r.subject>> : r \in Reports} = SourcePairs
        /\ \A i, j \in 1..Len(out.reports) :
               (/\ out.reports[i].class_section = out.reports[j].class_section
                /\ out.reports[i].subject = out.reports[j].subject) => i = j

\* two classes and two subjects with rows, and a pair of them without a report
C4_Witness ==
    /\ pc = "done"
    /\ Len(out.classes) = 2
    /\ Len(out.subjects) = 2
    /\ Len(out.reports) = 2

----------------------------------------------------------------------------
(* C5 and C6: calculate_student_skill_performance *)

\* the positions of a skill's question list whose number is <= total_questions
UpToTotal(skill) ==
    {j \in 1..Len(skill.questions) : skill.questions[j] <= args.total_questions}

\* the question at position j of the skill is a position of the response
\* vector, and the response there is 1
AnsweredRight(skill, j) ==
    /\ skill.questions[j] >= 1
    /\ skill.questions[j] <= Len(args.question_responses)
    /\ args.question_responses[skill.questions[j]] = 1

RightUpToTotal(skill) == Cardinality({j \in UpToTotal(skill) : AnsweredRight(skill, j)})

\* the entries of the returned mapping for one skill name
Entries(name) ==
    {i \in 1..Len(ret.skill_perf) : ret.skill_perf[i].skill_name = name}

\* C5: only the question numbers q <= total_questions of a skill enter the
\* numerator and the denominator of its percentage, and a skill without such a
\* question is left out of the mapping.  (What a number below 1 adds to the
\* numerator is C6's matter: here it may add 1 or nothing.)
C5_SkillBoundary ==
    (pc = "returned" /\ ~ret.raised) =>
        \A i \in 1..Len(args.skills) :
            LET skill == args.skills[i]
                below == Cardinality({j \in UpToTotal(skill) :
                                          skill.questions[j] < 1})
            IN  IF UpToTotal(skill) = {}
                THEN Entries(skill.skill_name) = {}
                ELSE /\ Cardinality(Entries(skill.skill_name)) = 1
                     /\ \A e \in Entries(skill.skill_name) :
                            \E k \in RightUpToTotal(skill)
                                     ..(RightUpToTotal(skill) + below) :
                                ret.skill_perf[e].perf =
                                    RoundDiv(k * 1000,
                                             Cardinality(UpToTotal(skill)))

\* questions [1,2,3], total_questions 2, responses [1,0,1]: 50.0
C5_Witness ==
    /\ pc = "returned"
    /\ args.skills[1].questions = <<1, 2, 3>>
    /\ args.total_questions = 2
    /\ args.question_responses = <<1, 0, 1>>
    /\ ~ret.raised
    /\ ret.skill_perf[1].perf = 500

\* C6: a question number that is no position of the response vector (below 1,
\* or above its length) never adds to the correct count: the call returns, and
\* each percentage counts the in-range responses equal to 1 and nothing else.
C6_OutOfRangeNotCorrect ==
    pc = "returned" =>
        /\ ~ret.raised
        /\ \A i \in 1..Len(args.skills) :
               \A e \in Entries(args.skills[i].skill_name) :
                   ret.skill_perf[e].perf =
                       RoundDiv(RightUpToTotal(args.skills[i]) * 1000,
                                Cardinality(UpToTotal(args.skills[i])))

----------------------------------------------------------------------------
(* C7 *)

\* C7: a (class, subject) pair without student rows gets no ClassReport, and
\* no exception propagates for it: a run ends in an exception only for a
\* directory without a parsed file (FileNotFoundError, ValueError), also when
\* no parsed totals file holds a student row.
C7_EmptyPairsAreAbsent ==
    /\ pc = "done" =>
           \A r \in Reports :
               /\ Len(r.students) > 0
               /\ <<r.class_section, r.subject>> \in SourcePairs
    /\ pc = "failed" => err \in {"FileNotFoundError", "ValueError"}

----------------------------------------------------------------------------
(* C8 *)

\* the student rows named n of the files with a header whose metadata
\* normalize to (c, s)
SourceRowCount(c, s, n) ==
    SumOver(totals_dir, LAMBDA f :
        IF f.hdr /\ normalize_class_section(f.cls) = c
                 /\ normalize_subject(f.subj) = s
        THEN Count(f.rows, LAMBDA r : r.name = n)
        ELSE 0)

\* the skill rows named n of the skills files with a header
SourceSkillCount(n) ==
    SumOver(skills_dir, LAMBDA f :
        IF f.hdr THEN Count(f.rows, LAMBDA r : r.skill_name = n) ELSE 0)

\* the question-level files whose name holds the underscore
NamedQLevelFiles ==
    {qlevel_files[i] : i \in {j \in 1..Len(qlevel_files) :
        \E k \in 1..Len(qlevel_files[j].fname) : qlevel_files[j].fname[k] = "_"}}

----------------------------------------------------------------------------
(* C9 *)

NoParsedTotals == \A i \in 1..Len(totals_dir) : ~totals_dir[i].hdr
NoParsedSkills == \A i \in 1..Len(skills_dir) : ~skills_dir[i].hdr

DirectoryFailure ==
    /\ pc = "failed"
    /\ err \in {"FileNotFoundError", "ValueError"}
    /\ out = NoOutput

----------------------------------------------------------------------------
(* C10 *)

\* C10: a student row whose Total Score is not a number, or is missing, is
\* loaded with score 0 and percentage 0.0, and the rows with a number keep
\* their score: whenever the totals loader returns, every student row of
\* every file with a header is in the table.
C10_CoercionNeverDrops ==
    (pc = "load_skills") =>
        \A i \in 1..Len(totals_dir) :
            totals_dir[i].hdr =>
                \A j \in 1..Len(totals_dir[i].rows) :
                    LET r == totals_dir[i].rows[j]
                    IN  (IsStudentRow(r) /\ r.total.k # "inf") =>
                            \E x \in 1..Len(student_df) :
                                /\ student_df[x].student_name = r.name
                                /\ student_df[x].total_questions = totals_dir[i].nq
                                /\ student_df[x].score =
                                       (IF r.total.k = "int" THEN r.total.v ELSE 0)
                                /\ (r.total.k # "int" =>
                                        student_df[x].percentage = 0)

----------------------------------------------------------------------------
(* C11 *)

\* the response vectors of the question-level records filed under (c, s)
SourceResponses(c, s) ==
    IF HasKey(question_level_data, c, s)
    THEN {Lookup(question_level_data, c, s)[i].question_responses :
              i \in 1..Len(Lookup(question_level_data, c, s))}
    ELSE {}

\* C11: the question_responses of every StudentResult of the output is no
\* longer than the total_questions of its ClassReport, and when it is not
\* empty it is the first total_questions positions of a question-level
\* record of the report's (class, subject).
C11_ResponsesWithinTotal ==
    pc = "done" =>
        \A r \in Reports :
            \A k \in 1..Len(r.students) :
                LET qr == r.students[k].question_responses
                IN  /\ Len(qr) <= r.total_questions
                    /\ qr # <<>> =>
                           \E full \in SourceResponses(r.class_section, r.subject) :
                               /\ Len(qr) = (IF Len(full) < r.total_questions
                                             THEN Len(full) ELSE r.total_questions)
                               /\ qr = SubSeq(full, 1, Len(qr))

\* a student whose record holds more positions than the test has questions
C11_Witness ==
    /\ pc = "done"
    /\ \E r \in Reports :
           \E k \in 1..Len(r.students) :
               /\ Len(r.students[k].question_responses) = r.total_questions
               /\ \E full \in SourceResponses(r.class_section, r.subject) :
                      Len(full) > r.total_questions

----------------------------------------------------------------------------
(* C12 *)

\* the question-level records filed under the pair of report r
RecordsOf(r) ==
    IF HasKey(question_level_data, r.class_section, r.subject)
    THEN Lookup(question_level_data, r.class_section, r.subject)
    ELSE <<>>

\* the record's normalized name is the student's normalized name, after the
\* override table
NamesJoin(r, student, record) ==
    normalize_name(record.student_name)
        = get_question_csv_name(normalize_name(student.name),
                                r.class_section, r.subject)

\* the first total_questions positions of a record's responses
RowOf(r, record) ==
    SubSeq(record.question_responses, 1,
           IF Len(record.question_responses) < r.total_questions
           THEN Len(record.question_responses) ELSE r.total_questions)

\* C12 as amended: a student gets the response row of the first record of
\* the (class, subject) whose normalized name is the student's; a student
\* without such a record gets an empty question_responses and an empty
\* skill_performance, and a record that joins no student is in no
\* StudentResult.
C12_JoinsFirstRecord ==
    pc = "done" =>
        \A r \in Reports :
            \A k \in 1..Len(r.students) :
                LET student == r.students[k]
                    joined == {i \in 1..Len(RecordsOf(r)) :
                                  NamesJoin(r, student, RecordsOf(r)[i])}
                IN  IF joined = {}
                    THEN /\ student.question_responses = <<>>
                         /\ student.skill_performance = <<>>
                    ELSE student.question_responses =
                             RowOf(r, RecordsOf(r)[
                                 CHOOSE i \in joined : \A j \in joined : i <= j])

\* a report with a student that has a record, a student that has none, and
\* a record that joins no student
C12_Witness ==
    /\ pc = "done"
    /\ \E r \in Reports :
           /\ \E k \in 1..Len(r.students) :
                  r.students[k].question_responses # <<>>
           /\ \E k \in 1..Len(r.students) :
                  \A i \in 1..Len(RecordsOf(r)) :
                      ~NamesJoin(r, r.students[k], RecordsOf(r)[i])
           /\ \E i \in 1..Len(RecordsOf(r)) :
                  \A k \in 1..Len(r.students) :
                      ~NamesJoin(r, r.students[k], RecordsOf(r)[i])

\* C12 as stated: a student has the response row of a record if and only if
\* the record's normalized name is the student's, for every record of the
\* (class, subject); a student without such a record gets an empty
\* question_responses and an empty skill_performance.
C12_JoinsEveryRecord ==
    pc = "done" =>
        \A r \in Reports :
            \A k \in 1..Len(r.students) :
                LET student == r.students[k]
                IN  /\ \A i \in 1..Len(RecordsOf(r)) :
                           NamesJoin(r, student, RecordsOf(r)[i])
                               <=> student.question_responses
                                       = RowOf(r, RecordsOf(r)[i])
                    /\ (\A i \in 1..Len(RecordsOf(r)) :
                            ~NamesJoin(r, student, RecordsOf(r)[i]))
                           => /\ student.question_responses = <<>>
                              /\ student.skill_performance = <<>>

----------------------------------------------------------------------------
(* C13 *)

\* C13: in every ClassReport of the output no question number is in the
\* questions list of two SkillPerformance entries.
C13_QuestionInOneSkill ==
    pc = "done" =>
        \A r \in Reports :
            \A i, j \in 1..Len(r.skills) :
                i # j =>
                    {r.skills[i].questions[a] : a \in 1..Len(r.skills[i].questions)}
                    \cap
                    {r.skills[j].questions[b] : b \in 1..Len(r.skills[j].questions)}
                    = {}

----------------------------------------------------------------------------
(* C14 *)

\* the label without the spaces at its two ends
Trimmed(raw) ==
    LET inner == {p \in (1..Len(raw)) \X (1..Len(raw)) :
                     /\ p[1] <= p[2]
                     /\ raw[p[1]] # " "
                     /\ raw[p[2]] # " "
                     /\ \A i \in 1..(p[1] - 1) : raw[i] = " "
                     /\ \A i \in (p[2] + 1)..Len(raw) : raw[i] = " "}
    IN  IF inner = {} THEN <<>>
        ELSE LET p == CHOOSE q \in inner : TRUE IN SubSeq(raw, p[1], p[2])

\* t is d digits, then g spaces and hyphens, then a letter, then anything
GradeLetter(t, d, g) ==
    /\ d >= 1
    /\ d + g + 1 <= Len(t)
    /\ \A i \in 1..d : t[i] \in {"0", "3"}
    /\ \A i \in (d + 1)..(d + g) : t[i] \in {" ", "-"}
    /\ t[d + g + 1] \in {"A", "b"}

\* C14: a label that after trimming is digits, then spaces and hyphens, then
\* a letter, gives the digits, a hyphen and the letter in upper case; every
\* other label gives its trimmed text; and the result is a fixed point.
C14_GradeLetterOrTrimmed ==
    pc = "returned" =>
        LET t == Trimmed(args.raw_class)
            shapes == {p \in (1..Len(t)) \X (0..Len(t)) : GradeLetter(t, p[1], p[2])}
        IN  /\ \A p \in shapes :
                   ret.once = SubSeq(t, 1, p[1]) \o <<"-">>
                                  \o <<IF t[p[1] + p[2] + 1] = "b" THEN "B" ELSE "A">>
            /\ shapes = {} => ret.once = t
            /\ ret.again = ret.once

\* "3-A A" gives "3-A"
C14_Witness ==
    /\ pc = "returned"
    /\ args.raw_class = <<"3", "-", "A", " ", "A">>
    /\ ret.once = <<"3", "-", "A">>

----------------------------------------------------------------------------
(* C15 *)

\* the digits a label starts with, as a number; -1 when it starts with none
RECURSIVE LeadingNumber(_, _)
LeadingNumber(label, sofar) ==
    IF label # <<>> /\ Head(label) \in {"0", "1", "2", "3", "4", "5", "6", "7", "8", "9"}
    THEN LeadingNumber(Tail(label),
             10 * (IF sofar < 0 THEN 0 ELSE sofar)
             + (CHOOSE n \in 0..9 :
                    <<"0", "1", "2", "3", "4", "5", "6", "7", "8", "9">>[n + 1]
                        = Head(label)))
    ELSE sofar

\* the label is <digits>-<upper-case letter>
IsGradeSection(label) ==
    /\ Len(label) >= 3
    /\ LeadingNumber(SubSeq(label, 1, Len(label) - 2), -1) >= 0
    /\ \A i \in 1..(Len(label) - 2) : IsDigit(label[i])
    /\ label[Len(label) - 1] = "-"
    /\ IsUpperCh(label[Len(label)])

\* a <= b in the order of the characters' code points
LexLeq(a, b) ==
    \/ \E k \in 1..Len(a) :
           /\ k <= Len(b)
           /\ SubSeq(a, 1, k - 1) = SubSeq(b, 1, k - 1)
           /\ Ord(a[k]) < Ord(b[k])
    \/ (Len(a) <= Len(b) /\ a = SubSeq(b, 1, Len(a)))

\* the place of a class: its grade and section, a label that is no
\* <digits>-<letter> standing at grade 999 with its whole text
PlaceLeq(a, b) ==
    LET ga == IF IsGradeSection(a) THEN LeadingNumber(a, -1) ELSE 999
        gb == IF IsGradeSection(b) THEN LeadingNumber(b, -1) ELSE 999
        ta == IF IsGradeSection(a) THEN <<a[Len(a)]>> ELSE a
        tb == IF IsGradeSection(b) THEN <<b[Len(b)]>> ELSE b
    IN  ga < gb \/ (ga = gb /\ LexLeq(ta, tb))

\* C15 as amended: the classes of the form <digits>-<letter> are listed by
\* (grade as an integer, section letter); every other label is listed as
\* grade 999 by its text, so after the classes of a lower grade; the
\* subjects are listed in lexical order.
C15_OrderedWithFallbackLast ==
    pc = "done" =>
        /\ \A i, j \in 1..Len(out.classes) :
               i < j => PlaceLeq(out.classes[i], out.classes[j])
        /\ \A i, j \in 1..Len(out.subjects) :
               i < j => LexLeq(out.subjects[i], out.subjects[j])

\* 9-A listed before 10-A, and a label that fell through listed after them
C15_Witness ==
    /\ pc = "done"
    /\ out.classes = << <<"9", "-", "A">>, <<"1", "0", "-", "A">>, <<"3">> >>

\* C15 as stated: the classes are listed by (grade number as an integer,
\* section letter), the labels that fell through normalization included;
\* the subjects are listed in lexical order.
C15_OrderedByGrade ==
    pc = "done" =>
        /\ \A i, j \in 1..Len(out.classes) :
               (i < j /\ LeadingNumber(out.classes[i], -1) >= 0
                      /\ LeadingNumber(out.classes[j], -1) >= 0) =>
                   \/ LeadingNumber(out.classes[i], -1)
                          < LeadingNumber(out.classes[j], -1)
                   \/ /\ LeadingNumber(out.classes[i], -1)
                             = LeadingNumber(out.classes[j], -1)
                      /\ (IsGradeSection(out.classes[i])
                              /\ IsGradeSection(out.classes[j])) =>
                             LexLeq(<<out.classes[i][Len(out.classes[i])]>>,
                                    <<out.classes[j][Len(out.classes[j])]>>)
        /\ \A i, j \in 1..Len(out.subjects) :
               i < j => LexLeq(out.subjects[i], out.subjects[j])

----------------------------------------------------------------------------
(* C16 *)

\* the student names of the parsed totals files of class c, of any subject
NamesOfClass(c) ==
    UNION {{ParsedTotals[i].rows[j].name :
                j \in {k \in 1..Len(ParsedTotals[i].rows) :
                           IsStudentRow(ParsedTotals[i].rows[k])}} :
           i \in {k \in 1..Len(ParsedTotals) :
                      normalize_class_section(ParsedTotals[k].cls) = c}}

\* C16: school_statistics.total_students is the sum over the classes of the
\* number of distinct student names of the class, whatever the subject.
C16_UniqueStudentsPerClass ==
    pc = "done" =>
        out.school_statistics.total_students =
            SumOver(out.classes, LAMBDA c : Cardinality(NamesOfClass(c)))

\* a student listed in two subjects of one class
C16_Witness ==
    /\ pc = "done"
    /\ \E i, j \in 1..Len(student_df) :
           /\ student_df[i].class_section = student_df[j].class_section
           /\ student_df[i].student_name = student_df[j].student_name
           /\ student_df[i].subject # student_df[j].subject
    /\ out.school_statistics.total_students
           < out.school_statistics.total_assessments

----------------------------------------------------------------------------
(* C17 *)

\* validate_data_sources has returned its warnings
Validated == pc \in {"build", "done"} /\ Len(warnings) = 1

\* the normalized names of the totals rows of (c, s)
TotalsNames(c, s) ==
    {normalize_name(student_df[i].student_name) :
         i \in {k \in 1..Len(student_df) :
                    /\ student_df[k].class_section = c
                    /\ student_df[k].subject = s}}

\* the normalized names of a question-level table
RecordNames(e) == {normalize_name(e.df[i].student_name) : i \in 1..Len(e.df)}

\* the mismatch warnings of (c, s)
MismatchesOf(c, s) ==
    {w \in warnings[1] : /\ w.kind \in {"perf_only", "q_only"}
                      /\ w.class_section = c
                      /\ w.subject = s}

\* C17: for each (class, subject) with question-level data the mismatch
\* warnings name exactly the normalized names that one of the two sources
\* has and the other has not, one warning for each, told apart by the side
\* that has the name; there is no mismatch warning for another pair.
C17_MismatchIsSymmetricDifference ==
    Validated =>
        /\ \A i \in 1..Len(question_level_data) :
               LET e == question_level_data[i]
                   P == TotalsNames(e.class_section, e.subject)
                   Q == RecordNames(e)
                   W == MismatchesOf(e.class_section, e.subject)
               IN  /\ {w.a : w \in W} = (P \ Q) \cup (Q \ P)
                   /\ Cardinality(W) = Cardinality((P \ Q) \cup (Q \ P))
                   /\ \A w \in W : (w.kind = "perf_only") <=> (w.a \in P)
        /\ \A w \in warnings[1] :
               w.kind \in {"perf_only", "q_only"} =>
                   HasKey(question_level_data, w.class_section, w.subject)

\* a pair with a name only in the totals, a name only in the question-level
\* table, and a name in both
C17_Witness ==
    /\ Validated
    /\ \E i \in 1..Len(question_level_data) :
           LET e == question_level_data[i]
               P == TotalsNames(e.class_section, e.subject)
               Q == RecordNames(e)
           IN  P \ Q # {} /\ Q \ P # {} /\ P \cap Q # {}

----------------------------------------------------------------------------
(* C18 *)

\* the student names of class c in the totals table, of any subject
CanonicalNames(c) ==
    {student_df[i].student_name :
         i \in {k \in 1..Len(student_df) : student_df[k].class_section = c}}

\* a is a run of consecutive characters of b
IsSubstring(a, b) ==
    \E k \in 0..(Len(b) - Len(a)) : \A i \in 1..Len(a) : a[i] = b[k + i]

\* two names that may be one student: both normalized forms have at least
\* eight characters and one is a substring of the other
MayBeDuplicates(n1, n2) ==
    /\ Len(normalize_name(n1)) >= 8
    /\ Len(normalize_name(n2)) >= 8
    /\ \/ IsSubstring(normalize_name(n1), normalize_name(n2))
       \/ IsSubstring(normalize_name(n2), normalize_name(n1))

\* the pair of names is flagged in class c
Flagged(c, n1, n2) ==
    \E w \in warnings[1] : /\ w.kind = "duplicate"
                           /\ w.class_section = c
                           /\ {w.a, w.b} = {n1, n2}

\* C18: within each class, two distinct student names are flagged exactly
\* when both normalized forms have at least eight characters and one is a
\* substring of the other, equal normalized forms included; the flagged
\* names stay two names of the table.
C18_DuplicatesFlagged ==
    Validated =>
        /\ \A c \in {student_df[i].class_section : i \in 1..Len(student_df)} :
               \A n1, n2 \in CanonicalNames(c) :
                   n1 # n2 => (Flagged(c, n1, n2) <=> MayBeDuplicates(n1, n2))
        /\ \A w \in warnings[1] :
               w.kind = "duplicate" =>
                   /\ w.a # w.b
                   /\ {w.a, w.b} \subseteq CanonicalNames(w.class_section)

----------------------------------------------------------------------------
(* C19 *)

\* build_school_data called with validate=False on the same tables returns
\* its output structure
ReturnsWithoutValidation ==
    /\ student_df # <<>>
    /\ \A i \in 1..Len(SchoolData(student_df, skills_df, question_level_data).reports) :
           ~SchoolData(student_df, skills_df, question_level_data).reports[i].raised

\* C19: validation does not change what build_school_data returns: a run
\* ends without output only if it does so with validate=False as well, the
\* output is the one built from the tables as loaded, and the tables are
\* after validation what the loaders returned.
C19_ValidatorIsSideChannel ==
    /\ pc = "failed" => ~ReturnsWithoutValidation
    /\ pc = "done" =>
           out = SchoolData(Concat(all_data), skills_df, LoadedQLevel(qlevel_files))
    /\ Validated =>
           /\ student_df = Concat(all_data)
           /\ question_level_data = LoadedQLevel(qlevel_files)

----------------------------------------------------------------------------
(* C20 *)

\* the percentages of the rows of the pair the call is about
Percentages ==
    Column(SelectSeq(args.student_df,
                     LAMBDA r : /\ r.class_section = args.class_section
                                /\ r.subject = args.subject),
           "percentage")

\* C20: for n >= 1 percentages the statistics have count = n,
\* below_median_count = the number of percentages strictly below the median,
\* which is at most floor(n / 2), below_60_count = the number strictly below
\* 60, min <= q1 <= median <= q3 <= max with min the least and max the
\* greatest percentage, and for n = 1 a standard deviation of 0.
\* (min and max are in tenths, the median in twentieths, the quartiles in
\* fortieths of a percent)
C20_StatisticsOfCollection ==
    (pc = "returned" /\ Percentages # <<>>) =>
        LET n == Len(Percentages)
        IN  /\ ret["count"] = n
            /\ ret["below_median_count"] =
                   Cardinality({i \in 1..n :
                       2 * Percentages[i] < StatisticalMedian(Percentages)})
            /\ ret["below_median_count"] <= n \div 2
            /\ ret["below_60_count"] =
                   Cardinality({i \in 1..n : Percentages[i] < 600})
            /\ ret["min"] = OrderStatistic(Percentages, 1)
            /\ ret["max"] = OrderStatistic(Percentages, n)
            /\ ret["median"] = StatisticalMedian(Percentages)
            /\ 4 * ret["min"] <= ret["q1"]
            /\ ret["q1"] <= 2 * ret["median"]
            /\ 2 * ret["median"] <= ret["q3"]
            /\ ret["q3"] <= 4 * ret["max"]
            /\ n = 1 => ret["std"] = 0

\* four percentages, one of them 60.0 and two below the median
C20_Witness ==
    /\ pc = "returned"
    /\ Len(Percentages) = 4
    /\ \E i \in 1..4 : Percentages[i] = 600
    /\ ret["below_median_count"] = 2
    /\ ret["q1"] < 2 * ret["median"]
    /\ ret["std"] > 0

----------------------------------------------------------------------------
(* C21 *)

\* the mean to one decimal: the tenth nearest to sum / n, a tie to the even one
NearestTenthMean(xs) ==
    LET n == Len(xs)
        sum == SumSeq(xs)
        Dist(m) == IF n * m >= sum THEN n * m - sum ELSE sum - n * m
    IN  CHOOSE m \in 0..1000 :
            /\ 2 * Dist(m) <= n
            /\ 2 * Dist(m) = n => m % 2 = 0

\* the rows of a table put under one class and one subject
AsOneCollection(rows) ==
    [i \in 1..Len(rows) |->
        [rows[i] EXCEPT !.class_section = <<"*">>, !.subject = <<"*">>]]

\* what calculate_class_statistics gives for the rows as one collection
StatisticsOf(rows) == calculate_class_statistics(AsOneCollection(rows), <<"*">>, <<"*">>)

\* the rows of the totals table of class c, of every subject
RowsOfClass(c) == SelectSeq(student_df, LAMBDA r : r.class_section = c)

\* C21: grade_medians[c].overall_median / overall_average are the median and
\* the one-decimal mean of all percentage rows of class c across the subjects,
\* school_statistics.median / average are those of all percentage rows of the
\* totals source, and each equals the median / average that
\* calculate_class_statistics computes on that collection.
C21_SameStatisticsAtEveryScope ==
    pc = "done" =>
        /\ \A i \in 1..Len(out.grade_medians) :
               LET g == out.grade_medians[i]
                   xs == Column(RowsOfClass(g.class_section), "percentage")
               IN  /\ g.overall_median = StatisticalMedian(xs)
                   /\ g.overall_average = NearestTenthMean(xs)
                   /\ g.overall_median
                          = StatisticsOf(RowsOfClass(g.class_section))["median"]
                   /\ g.overall_average
                          = StatisticsOf(RowsOfClass(g.class_section))["average"]
        /\ LET xs == Column(student_df, "percentage")
           IN  /\ out.school_statistics.median = StatisticalMedian(xs)
               /\ out.school_statistics.average = NearestTenthMean(xs)
               /\ out.school_statistics.median = StatisticsOf(student_df)["median"]
               /\ out.school_statistics.average = StatisticsOf(student_df)["average"]

\* a class whose overall median is the median of none of its two subjects, in
\* a school of two classes whose median is not that class's
C21_Witness ==
    /\ pc = "done"
    /\ Len(out.classes) = 2
    /\ \E i \in 1..Len(out.grade_medians) :
           LET g == out.grade_medians[i]
           IN  /\ Len(g.by_subject) = 2
               /\ \A k \in 1..2 : g.by_subject[k].median # g.overall_median
               /\ g.overall_median # out.school_statistics.median

----------------------------------------------------------------------------
(* C26 *)

\* the orders in which a listing of n files can come
Orders(n) == {p \in [1..n -> 1..n] : \A i, j \in 1..n : p[i] = p[j] => i = j}

\* the totals table of a listing: the files that parse, concatenated in order
TotalsTableOf(files) ==
    LET parsed == SelectSeq(files, LAMBDA f : TotalsError(f) = "")
    IN  Concat([i \in 1..Len(parsed) |-> parse_student_performance_csv(parsed[i])])

\* what build_school_data returns when the totals files are listed in order p
OutputInOrder(p) ==
    SchoolData(TotalsTableOf([i \in 1..Len(totals_dir) |-> totals_dir[p[i]]]),
               skills_df, question_level_data)

\* two reports with the same StudentResults, in whatever order
SameStudents(r1, r2) ==
    /\ Len(r1.students) = Len(r2.students)
    /\ \A i \in 1..Len(r1.students) :
           Count(r1.students, LAMBDA t : t = r1.students[i])
               = Count(r2.students, LAMBDA t : t = r1.students[i])

\* C26: for a fixed set of files the output of build_school_data does not
\* depend on the order in which the directory listing returns them: every
\* ClassReport has the same total_questions, class_median and multiset of
\* StudentResults whichever file was read first.
C26_ListingOrderIrrelevant ==
    pc = "done" =>
        \A p \in Orders(Len(totals_dir)) :
            LET other == OutputInOrder(p)
            IN  /\ Len(other.reports) = Len(out.reports)
                /\ \A i \in 1..Len(out.reports) :
                       \E j \in 1..Len(other.reports) :
                           /\ other.reports[j].class_section
                                  = out.reports[i].class_section
                           /\ other.reports[j].subject = out.reports[i].subject
                           /\ other.reports[j].total_questions
                                  = out.reports[i].total_questions
                           /\ other.reports[j].class_median
                                  = out.reports[i].class_median
                           /\ SameStudents(other.reports[j], out.reports[i])

----------------------------------------------------------------------------
(* C27 *)

\* the subjects for which a ClassReport of class c is emitted
ReportedSubjects(c) ==
    {out.reports[i].subject :
        i \in {k \in 1..Len(out.reports) : out.reports[k].class_section = c}}

\* C27: for every class c the keys of grade_medians[c].by_subject are the
\* subjects s for which a ClassReport (c, s) is emitted, each key once, and
\* by_subject[s].median / .average are that report's class_median /
\* class_average.
C27_GradeSummaryMatchesReports ==
    pc = "done" =>
        \A i \in 1..Len(out.grade_medians) :
            LET g == out.grade_medians[i]
            IN  /\ {g.by_subject[k].subject : k \in 1..Len(g.by_subject)}
                       = ReportedSubjects(g.class_section)
                /\ \A k, l \in 1..Len(g.by_subject) :
                       g.by_subject[k].subject = g.by_subject[l].subject => k = l
                /\ \A k \in 1..Len(g.by_subject) :
                       \A r \in ReportFor(g.class_section, g.by_subject[k].subject) :
                           /\ g.by_subject[k].median = r.class_median
                           /\ g.by_subject[k].average = r.class_average

\* a class with two subjects of different medians, next to a class that has
\* one of the two subjects only
C27_Witness ==
    /\ pc = "done"
    /\ Len(out.subjects) = 2
    /\ \E i, j \in 1..Len(out.grade_medians) :
           /\ Len(out.grade_medians[i].by_subject) = 2
           /\ out.grade_medians[i].by_subject[1].median
                  # out.grade_medians[i].by_subject[2].median
           /\ Len(out.grade_medians[j].by_subject) = 1

----------------------------------------------------------------------------
(* C28 *)

\* the (class, subject) a question-level file name encodes, normalized
NormalizedPairOf(f) ==
    <<normalize_class_section(FileNameParts(f.fname)[1]),
      normalize_subject(FileNameParts(f.fname)[2])>>

\* a record that carries a name, and the name is the student's
RecordJoins(r, student, record) ==
    record.student_name # NAN /\ NamesJoin(r, student, record)

\* C28: a question-level file whose name encodes a class and subject that
\* normalize to a (class, subject) of the totals source supplies the response
\* vectors of that pair's name-matched students, whatever the spelling of the
\* file name: such a student has the response row of a record of the file.
C28_JoinedUnderNormalizedNames ==
    pc = "done" =>
        \A n \in 1..Len(qlevel_files) :
            LET f == qlevel_files[n]
            IN  QLevelError(f) = "" =>
                    \A r \in ReportFor(NormalizedPairOf(f)[1], NormalizedPairOf(f)[2]) :
                        \A k \in 1..Len(r.students) :
                            (\E i \in 1..Len(f.rows) :
                                 RecordJoins(r, r.students[k], f.rows[i]))
                            => \E i \in 1..Len(f.rows) :
                                   /\ RecordJoins(r, r.students[k], f.rows[i])
                                   /\ r.students[k].question_responses
                                          = RowOf(r, f.rows[i])

----------------------------------------------------------------------------
(* C22 *)

RoleEntries == {PASSWORDS[password] : password \in DOMAIN PASSWORDS}

\* C22: a session is authenticated only through a Login that submitted a
\* key of PASSWORDS, and role_info is then that password's entry; while it is
\* unauthenticated role_info is None and main holds no school data; a wrong
\* password leaves it unauthenticated; once authenticated it stays so with
\* the same role_info.
C22_LoginGate ==
    /\ [](\A s \in Sessions :
             IF session_state[s].authenticated
             THEN session_state[s].role_info \in RoleEntries
             ELSE /\ session_state[s].role_info = NoRoleInfo
                  /\ data[s] = NoData)
    /\ [][\A s \in Sessions :
             /\ (~session_state[s].authenticated /\ session_state'[s].authenticated)
                    => /\ session_state[s].password_input \in DOMAIN PASSWORDS
                       /\ session_state'[s].role_info
                              = PASSWORDS[session_state[s].password_input]
             /\ (/\ ~session_state[s].authenticated
                 /\ session_state[s].password_input \notin DOMAIN PASSWORDS)
                    => ~session_state'[s].authenticated
             /\ session_state[s].authenticated
                    => /\ session_state'[s].authenticated
                       /\ session_state'[s].role_info = session_state[s].role_info
          ]_vars

\* a session logged in as elementary whose main holds the filtered data, next
\* to a session that is still at the form with a wrong password typed in
C22_Witness ==
    \E s, t \in Sessions :
        /\ session_state[s].authenticated
        /\ session_state[s].role_info.role = "elementary"
        /\ data[s] # NoData
        /\ ~session_state[t].authenticated
        /\ session_state[t].password_input = "guess"

----------------------------------------------------------------------------
(* C23 *)

Allowed(c) == \E k \in 1..Len(args.allowed_classes) : args.allowed_classes[k] = c

\* C23: the classes, reports and grade_medians of the structure
\* filter_data_by_role returns are exactly the entries of the input whose
\* class is in allowed_classes, in the order of the input, and no entry of a
\* class outside allowed_classes.
C23_OnlyAllowedClasses ==
    pc = "returned" =>
        /\ ret.classes = SelectSeq(out.classes, Allowed)
        /\ ret.reports = SelectSeq(out.reports, LAMBDA r : Allowed(r.class_section))
        /\ ret.grade_medians
               = SelectSeq(out.grade_medians, LAMBDA g : Allowed(g.class_section))
        /\ \A i \in 1..Len(ret.classes) : Allowed(ret.classes[i])
        /\ \A i \in 1..Len(ret.reports) : Allowed(ret.reports[i].class_section)
        /\ \A i \in 1..Len(ret.grade_medians) :
               Allowed(ret.grade_medians[i].class_section)

\* a school of three classes filtered to the two that the list allows
C23_Witness ==
    /\ pc = "returned"
    /\ Len(out.classes) = 3
    /\ Len(ret.classes) = 2
    /\ Len(ret.reports) = 2
    /\ Len(ret.grade_medians) = 2

----------------------------------------------------------------------------
(* C24 *)

\* the totals table with the score of every row of a class outside
\* allowed_classes set to 0
OtherTable ==
    [i \in 1..Len(student_df) |->
        IF Allowed(student_df[i].class_section) THEN student_df[i]
        ELSE [student_df[i] EXCEPT !.score = 0, !.percentage = 0]]

\* the structure of a school that differs from this one in the scores of the
\* classes outside allowed_classes only
OtherInput == SchoolData(OtherTable, skills_df, question_level_data)

\* C24: the school_statistics that filter_data_by_role returns are the same
\* for two inputs that agree on the reports and grade_medians of every
\* allowed class: here the input of the call and the structure of a school
\* whose other classes scored differently.
C24_StatisticsFromAllowedOnly ==
    pc = "returned" =>
        /\ AllowedOnly(OtherInput.reports, args.allowed_classes)
               = AllowedOnly(out.reports, args.allowed_classes)
        /\ AllowedOnly(OtherInput.grade_medians, args.allowed_classes)
               = AllowedOnly(out.grade_medians, args.allowed_classes)
        /\ filter_data_by_role(OtherInput, args.allowed_classes).school_statistics
               = ret.school_statistics

----------------------------------------------------------------------------
(* C30 *)

\* C30: filter_data_by_role leaves the structure it was given unchanged:
\* when the call returns, the input's school_info, classes, subjects,
\* reports, grade_medians and school_statistics are what build_school_data
\* returned, for every allowed_classes list.
C30_InputUnchanged ==
    pc = "returned" =>
        /\ args.data.school_info = out.school_info
        /\ args.data.classes = out.classes
        /\ args.data.subjects = out.subjects
        /\ args.data.reports = out.reports
        /\ args.data.grade_medians = out.grade_medians
        /\ args.data.school_statistics = out.school_statistics

\* a call that returned fewer classes and reports and other statistics than
\* its input has
C30_Witness ==
    /\ pc = "returned"
    /\ Len(ret.classes) < Len(out.classes)
    /\ Len(ret.reports) < Len(out.reports)
    /\ ret.reports # <<>>
    /\ ret.school_statistics # out.school_statistics

----------------------------------------------------------------------------
(* C25 *)

\* the (class, name) pairs of the students of the structure
ClassNamePairs ==
    UNION {{<<args.data.reports[i].class_section, args.data.reports[i].students[k].name>> :
               k \in 1..Len(args.data.reports[i].students)} :
           i \in 1..Len(args.data.reports)}

\* the subjects of class c in which a student named n has a percentage
\* strictly below the threshold
SubjectsBelow(c, n) ==
    {args.data.reports[i].subject :
        i \in {j \in 1..Len(args.data.reports) :
                   /\ args.data.reports[j].class_section = c
                   /\ \E k \in 1..Len(args.data.reports[j].students) :
                          /\ args.data.reports[j].students[k].name = n
                          /\ args.data.reports[j].students[k].percentage
                                 < args.threshold}}

\* C25: identify_at_risk_students returns one row for a (class, student name)
\* if and only if the student's percentage is strictly below the threshold in
\* at least two subjects of the class; Count is that number of subjects, and
\* the rows are ordered by Count descending, then Class ascending.
C25_AtRiskRows ==
    pc = "returned" =>
        /\ \A key \in ClassNamePairs :
               LET rows == {i \in 1..Len(ret) :
                               ret[i].Class = key[1] /\ ret[i].Student = key[2]}
                   below == Cardinality(SubjectsBelow(key[1], key[2]))
               IN  IF below >= 2
                   THEN /\ Cardinality(rows) = 1
                        /\ \A i \in rows : ret[i].Count = below
                   ELSE rows = {}
        /\ \A i \in 1..Len(ret) : <<ret[i].Class, ret[i].Student>> \in ClassNamePairs
        /\ \A i, j \in 1..Len(ret) :
               i < j => \/ ret[i].Count > ret[j].Count
                        \/ /\ ret[i].Count = ret[j].Count
                           /\ ~StrLess(ret[j].Class, ret[i].Class)

----------------------------------------------------------------------------
(* C29 *)

SavedGroups(s) == DOMAIN session_state[s].saved_groups

\* C29: under any interleaving of Save Group and Del by the sessions the
\* groups file holds every group that a session saved and no session
\* deleted - a group leaves the file only when a session deletes it - and
\* after every Save Group or Del the file is the acting session's
\* saved_groups.
C29_GroupsPersist ==
    [][/\ \A name \in DOMAIN groups_file.groups :
             name \notin DOMAIN groups_file'.groups
                 => \E s \in Sessions :
                        /\ name \in SavedGroups(s)
                        /\ name \notin DOMAIN session_state'[s].saved_groups
       /\ groups_file' # groups_file
             => \E s \in Sessions :
                    /\ session_state'[s] # session_state[s]
                    /\ groups_file'.groups = session_state'[s].saved_groups
      ]_vars

====
